---- MODULE Spec2Model ----
(***************************************************************************)
(* A model of the versioned backup store of daemon-sauvegarde:             *)
(*   - VersionManager (src/src/server/version_manager.py): save_version,   *)
(*     delete_file, delete_specific_version, cleanup_old_versions,         *)
(*     save_file_from_delta, get_or_create_dedup_file, _validate_path      *)
(*   - cleanup_dedup (src/src/server/gc.py)                                *)
(*   - RestoreManager.restore_version (src/src/server/restore.py)          *)
(*   - DeltaSync (src/src/common/delta_sync.py)                            *)
(*   - EncryptionManager key file (src/src/common/encryption.py)           *)
(*   - RetentionManager (src/src/server/retention.py)                      *)
(*   - BackupAgent (src/src/server/agent.py)                               *)
(*   - SecureSSHClient.send_file (src/src/client/ssh_client.py)            *)
(*                                                                         *)
(* Conventions.  A TEXT value of the catalog is a sequence of strings: a   *)
(* path is the sequence of its segments, a hex digest is a one-segment     *)
(* sequence, NULL is the empty sequence.  A file's bytes are a record      *)
(* [body, gz, enc]: the plaintext bytes `body`, gzip-framed iff gz,        *)
(* AES-GCM-framed (under the master key) iff enc.  The disk is a set of    *)
(* [path, data] with `path` the absolute location after the operating      *)
(* system has resolved "..".  SHA-256 is modelled as collision free.       *)
(***************************************************************************)
EXTENDS Integers, Sequences, FiniteSets, TLC

\* ------------------------------------------------------------------ bounds
MaxVersions == 2      \* rows of file_versions
MaxTime     == 2      \* values datetime.now() can format to
MaxRefs     == 2      \* cap on ref_count
MaxLen      == 4      \* length of a file of the delta model
BlockSize   == 2      \* DeltaSync(block_size): bytes per block (4096 by default)
MaxRotations == 3     \* successive change_password calls
MaxStamps   == 3      \* versions of the path a prune run finds
MaxRequests == 3      \* request lines of one connection
MaxBlocks   == 2      \* block references of a client's delta
MaxDrift    == 1      \* how far below zero a ref_count is followed
MaxTurns    == 2      \* request lines two agents on one root read between them

Times == 1..MaxTime
Bytes == {1, 2}

\* The bytes uploaded by the client in the store model.
Contents == {<<1>>, <<1, 2>>}

\* backup_root, an absolute directory two levels deep: /P/R
BackupRoot == <<"P", "R">>

\* relative_path arguments of an ordinary client: "a", "/a", "../x"
Paths == { <<"a">>, <<"", "a">>, <<"..", "x">> }

\* ... and of any client: also "../../P/R/a", which leaves the root and names
\* its parent directories on the way back
RawPaths == Paths \cup { <<"..", "..", "P", "R", "a">> }

NULL == <<>>

\* ------------------------------------------------------------ path helpers
IsPrefix(p, q) == Len(p) <= Len(q) /\ SubSeq(q, 1, Len(p)) = p

RECURSIVE ResolveFrom(_, _)
ResolveFrom(stack, segs) ==
    IF segs = <<>> THEN stack
    ELSE LET s == Head(segs) IN
         ResolveFrom(IF s = ".."
                       THEN (IF stack = <<>> THEN <<>> ELSE SubSeq(stack, 1, Len(stack) - 1))
                     ELSE IF s = "" \/ s = "." THEN stack
                     ELSE Append(stack, s),
                     Tail(segs))

\* Path.resolve() of an absolute path, and the operating system's own
\* resolution of ".." when a path is opened.
resolve(segs) == ResolveFrom(<<>>, segs)

RECURSIVE lstrip(_)
lstrip(segs) == IF segs # <<>> /\ Head(segs) = "" THEN lstrip(Tail(segs)) ELSE segs
RECURSIVE rstrip(_)
rstrip(segs) == IF segs # <<>> /\ segs[Len(segs)] = ""
                  THEN rstrip(SubSeq(segs, 1, Len(segs) - 1)) ELSE segs
\* str.strip('/'): the empty segments a leading or trailing '/' leaves
strip(segs) == rstrip(lstrip(segs))

\* str(path) + '.gz', str(path) + '.enc'
AddSuffix(p, sfx) == [p EXCEPT ![Len(p)] = @ \o sfx]

\* ------------------------------------------------------------ file helpers
Plain(c) == [body |-> c, gz |-> FALSE, enc |-> FALSE]

exists(disk, p) == LET rp == resolve(p) IN \E f \in disk : f.path = rp
read(disk, p)   == LET rp == resolve(p) IN (CHOOSE f \in disk : f.path = rp).data
write(disk, p, d) == LET rp == resolve(p) IN
                     {f \in disk : f.path # rp} \cup {[path |-> rp, data |-> d]}
unlink(disk, p) == LET rp == resolve(p) IN {f \in disk : f.path # rp}

\* hashlib.sha256(...).hexdigest(): distinct bytes give distinct digests
calculate_hash(d) ==
    "sha256" \o (IF d.body = <<>> THEN "<<>>" ELSE ToString(d.body))
             \o (IF d.gz THEN ".gz" ELSE "") \o (IF d.enc THEN ".enc" ELSE "")

VARIABLES
    enable_compression, enable_deduplication, enable_encryption,
    file_versions,      \* table file_versions, in rowid order
    dedup_store,        \* table dedup_store
    disk                \* every file the process can reach

storeVars == <<enable_compression, enable_deduplication, enable_encryption,
               file_versions, dedup_store, disk>>

\* The backup root as one value, handed to the operations below.
Store == [enable_compression |-> enable_compression,
          enable_deduplication |-> enable_deduplication,
          enable_encryption |-> enable_encryption,
          file_versions |-> file_versions,
          dedup_store |-> dedup_store,
          disk |-> disk]

current_dir  == BackupRoot \o <<"current">>
versions_dir == BackupRoot \o <<"versions">>
dedup_dir    == BackupRoot \o <<"dedup_store">>

\* --------------------------------------------------------- _validate_path
\* Mutant of _validate_path: the candidate path is compared with the root
\* without being resolved.
_validate_path_unresolved(relative_path) ==
    LET clean_rel == strip(relative_path)
        full_path == BackupRoot \o clean_rel
    IN  [ok |-> IsPrefix(BackupRoot, full_path), clean_rel |-> clean_rel]

_validate_path(relative_path) ==
    LET clean_rel == strip(relative_path)
        full_path == resolve(BackupRoot \o clean_rel)
    IN  [ok |-> IsPrefix(BackupRoot, full_path), clean_rel |-> clean_rel]

\* ------------------------------------------------------------- the pipeline
gzip_compress(d) == [d EXCEPT !.gz = TRUE]
encrypt_file(d)  == [d EXCEPT !.enc = TRUE]

\* Mutant of pipeline: the compressed temporary file is left beside the
\* encrypted one.
pipeline_keeping_temp(S, data, path) ==
    LET temp_path  == IF S.enable_compression THEN AddSuffix(path, ".gz") ELSE path
        temp_data  == IF S.enable_compression THEN gzip_compress(data) ELSE data
        disk1      == write(S.disk, temp_path, temp_data)
        enc_path   == AddSuffix(temp_path, ".enc")
    IN  IF S.enable_encryption
          THEN [final_path |-> enc_path,
                disk |-> write(disk1, enc_path, encrypt_file(temp_data))]
          ELSE [final_path |-> temp_path, disk |-> disk1]

\* compress -> encrypt -> persist at `path` (absolute, without suffix);
\* returns the final path and the disk.  (compress_file's fallback on an
\* I/O error is not taken here: the compression succeeds.)
pipeline(S, data, path) ==
    LET temp_path  == IF S.enable_compression THEN AddSuffix(path, ".gz") ELSE path
        temp_data  == IF S.enable_compression THEN gzip_compress(data) ELSE data
        disk1      == write(S.disk, temp_path, temp_data)
        enc_path   == AddSuffix(temp_path, ".enc")
    IN  IF S.enable_encryption
          THEN [final_path |-> enc_path,
                disk |-> unlink(write(disk1, enc_path, encrypt_file(temp_data)), temp_path)]
          ELSE [final_path |-> temp_path, disk |-> disk1]

\* final_path.relative_to(self.backup_root): lexical, ".." is kept
relative_to_root(p) == SubSeq(p, Len(BackupRoot) + 1, Len(p))

\* --------------------------------------------- get_or_create_dedup_file
\* The blob's place: dedup_dir / hash[:2] / hash[2:4] / hash.  The two shard
\* directories are a function of the digest and are folded into the last segment.
dedup_blob(file_hash) == dedup_dir \o <<file_hash>>

\* The miss branch up to the INSERT: the pipeline has written the blob.
dedup_blob_written(S, data, file_hash) ==
    [S EXCEPT !.disk = pipeline(S, data, dedup_blob(file_hash)).disk]

get_or_create_dedup_file(S, data, file_hash) ==
    LET hits == {d \in S.dedup_store : d.file_hash = <<file_hash>>}
    IN  IF hits # {}
          THEN LET d == CHOOSE x \in hits : TRUE IN
               [S |-> [S EXCEPT !.dedup_store =
                          {IF x.file_hash = <<file_hash>>
                             THEN [x EXCEPT !.ref_count = @ + 1] ELSE x : x \in @}],
                dedup_path |-> d.dedup_path,
                existed |-> TRUE]
          ELSE LET w == pipeline(S, data, dedup_blob(file_hash))
                   rel_path == relative_to_root(w.final_path)
               IN  [S |-> [dedup_blob_written(S, data, file_hash)
                             EXCEPT !.dedup_store = @ \cup
                                        {[file_hash |-> <<file_hash>>,
                                          dedup_path |-> rel_path,
                                          ref_count |-> 1,
                                          is_encrypted |-> S.enable_encryption]}],
                    dedup_path |-> rel_path,
                    existed |-> FALSE]

\* ----------------------------------------------------------- record_version
\* Mutant of record_version: INSERT OR REPLACE on (file_path, version_timestamp).
record_version_replacing(S, file_path, timestamp, version_path, file_hash, action, is_compressed, is_deduplicated, dedup_ref, is_encrypted) ==
    [S EXCEPT !.file_versions = Append(
        SelectSeq(@, LAMBDA r : ~(r.file_path = file_path /\ r.version_timestamp = timestamp)),
        [file_path |-> file_path,
         version_timestamp |-> timestamp,
         version_path |-> version_path,
         file_hash |-> <<file_hash>>,
         dedup_ref |-> dedup_ref,
         is_compressed |-> is_compressed,
         is_deduplicated |-> is_deduplicated,
         is_encrypted |-> is_encrypted,
         action |-> action])]

record_version(S, file_path, timestamp, version_path, file_hash, action, is_compressed, is_deduplicated, dedup_ref, is_encrypted) ==
    [S EXCEPT !.file_versions = Append(@,
        [file_path |-> file_path,
         version_timestamp |-> timestamp,
         version_path |-> version_path,
         file_hash |-> <<file_hash>>,
         dedup_ref |-> dedup_ref,
         is_compressed |-> is_compressed,
         is_deduplicated |-> is_deduplicated,
         is_encrypted |-> is_encrypted,
         action |-> action])]

\* ------------------------------------------------------------- save_version
\* `data` is the content of the uploaded temporary file, `now` what
\* datetime.now() formats to, `rel` the validated path.

\* The non-deduplicated branch up to record_version: the version file is written.
version_file_written(S, data, rel, now) ==
    [S EXCEPT !.disk = pipeline(S, data, versions_dir \o <<ToString(now)>> \o rel).disk]

\* The archive of the new version, up to and including record_version.
archive_version(S, data, rel, now) ==
    LET new_hash  == calculate_hash(data)
        timestamp == now
        action    == IF ~exists(S.disk, current_dir \o rel) THEN "created" ELSE "modified"
    IN  IF S.enable_deduplication
          THEN LET g == get_or_create_dedup_file(S, data, new_hash) IN
               record_version(g.S, rel, timestamp, g.dedup_path, new_hash, action,
                              S.enable_compression, TRUE, g.dedup_path,
                              S.enable_encryption)
          ELSE LET version_file == versions_dir \o <<ToString(timestamp)>> \o rel
                   w == pipeline(S, data, version_file)
               IN  record_version(version_file_written(S, data, rel, now), rel, timestamp,
                                  relative_to_root(w.final_path), new_hash, action,
                                  S.enable_compression, FALSE, NULL,
                                  S.enable_encryption)

\* ... and the replacement of current/<path> that ends save_version.
store_version(S, data, rel, now) ==
    [archive_version(S, data, rel, now) EXCEPT !.disk = write(@, current_dir \o rel, data)]

\* current/<path> exists and hashes to the hash of the upload
unchanged(S, data, rel) ==
    /\ exists(S.disk, current_dir \o rel)
    /\ calculate_hash(read(S.disk, current_dir \o rel)) = calculate_hash(data)

\* Mutant of save_version: the comparison with current/<path> is skipped.
save_version_without_fast_path(S, data, relative_path, now) ==
    LET v == _validate_path(relative_path) IN
    IF ~v.ok THEN [S |-> S, ok |-> FALSE]
    ELSE [S |-> store_version(S, data, v.clean_rel, now), ok |-> TRUE]

\* Returns the new store and the return value.
save_version(S, data, relative_path, now) ==
    LET v == _validate_path(relative_path) IN
    IF ~v.ok THEN [S |-> S, ok |-> FALSE]
    ELSE IF unchanged(S, data, v.clean_rel) THEN [S |-> S, ok |-> TRUE]
    ELSE [S |-> store_version(S, data, v.clean_rel, now), ok |-> TRUE]

\* save_version when compress_file's gzip write raises. Its except branch
\* copies the source to dest_path and returns dest_path without ".gz": the
\* pipeline goes on from the very file it would have written with compression
\* off, and a dedup hit writes nothing either way. The callers do not look at
\* what compress_file did: the row carries is_compressed = self.enable_compression
\* (and the other branch sets is_compressed = True after the call).
save_version_compress_failed(S, data, relative_path, now) ==
    LET r == save_version([S EXCEPT !.enable_compression = FALSE], data, relative_path, now)
        n == Len(S.file_versions)
    IN  [S |-> [r.S EXCEPT !.enable_compression = S.enable_compression,
                           !.file_versions =
                               [k \in DOMAIN @ |->
                                   IF k > n THEN [@[k] EXCEPT !.is_compressed = S.enable_compression]
                                            ELSE @[k]]],
         ok |-> r.ok]

\* The stores a save_version that stops between two of its steps leaves: the
\* blob without its rows, the dedup_store row (new, or with its ref_count
\* incremented) without the file_versions row, both rows without the new
\* current/<path>.
save_version_interrupted(S, data, relative_path, now) ==
    LET v == _validate_path(relative_path)
        rel == v.clean_rel
        new_hash == calculate_hash(data)
        miss == ~\E d \in S.dedup_store : d.file_hash = <<new_hash>>
    IN  IF ~v.ok \/ unchanged(S, data, rel) THEN {}
        ELSE (IF S.enable_deduplication
                THEN (IF miss THEN {dedup_blob_written(S, data, new_hash)} ELSE {})
                     \cup {get_or_create_dedup_file(S, data, new_hash).S}
                ELSE {version_file_written(S, data, rel, now)})
             \cup {archive_version(S, data, rel, now)}

\* --------------------------------------------------------------- delete_file
delete_file(S, relative_path, now) ==
    LET v == _validate_path(relative_path) IN
    IF ~v.ok THEN [S |-> S, ok |-> FALSE]
    ELSE
    LET rel          == v.clean_rel
        current_file == current_dir \o rel
    IN
    IF ~exists(S.disk, current_file) THEN [S |-> S, ok |-> TRUE]
    ELSE
    LET timestamp    == now
        version_file == versions_dir \o <<ToString(timestamp)>> \o rel
        cur          == read(S.disk, current_file)
        S1 == [S EXCEPT !.disk = write(@, version_file, cur)]
        S2 == record_version(S1, rel, timestamp, relative_to_root(version_file),
                             calculate_hash(cur), "deleted", FALSE, FALSE, NULL, FALSE)
    IN  [S |-> [S2 EXCEPT !.disk = unlink(@, current_file)], ok |-> TRUE]

\* ---------------------------------------------------------------- catalog
RowIdx(S) == 1..Len(S.file_versions)
Matching(S, file_path, timestamp) ==
    {i \in RowIdx(S) : /\ S.file_versions[i].file_path = file_path
                       /\ S.file_versions[i].version_timestamp = timestamp}
\* cursor.fetchone() of a SELECT without ORDER BY: the row of lowest rowid
FirstOf(idx) == CHOOSE i \in idx : \A j \in idx : i <= j

RECURSIVE SelectSeq2(_, _)
\* the rows of `rows` whose index is not in `drop`, in order
SelectSeq2(rows, drop) ==
    IF rows = <<>> THEN <<>>
    ELSE LET n == Len(rows)
             front == SelectSeq2(SubSeq(rows, 1, n - 1), drop)
         IN  IF n \in drop THEN front ELSE Append(front, rows[n])

\* --------------------------------------------------- delete_specific_version
\* The file removal of the non-deduplicated branch, before the DELETE.
delete_specific_version_unlink(S, row) ==
    IF row.is_deduplicated /\ row.dedup_ref # NULL
      THEN S
      ELSE [S EXCEPT !.disk = unlink(@, BackupRoot \o row.version_path)]

\* Mutant of delete_specific_version: the dedup file is removed as soon as
\* the count falls to 0 (the alternative its comment mentions).
delete_specific_version_collecting(S, file_path, timestamp) ==
    LET idx == Matching(S, file_path, timestamp) IN
    IF idx = {} THEN [S |-> S, ok |-> FALSE]
    ELSE
    LET row == S.file_versions[FirstOf(idx)]
        S1  == IF row.is_deduplicated /\ row.dedup_ref # NULL
                 THEN [S EXCEPT !.dedup_store =
                          {IF d.dedup_path = row.dedup_ref
                             THEN [d EXCEPT !.ref_count = @ - 1] ELSE d : d \in @},
                                !.disk = IF \E d \in S.dedup_store :
                                              d.dedup_path = row.dedup_ref /\ d.ref_count <= 1
                                           THEN unlink(@, BackupRoot \o row.dedup_ref) ELSE @]
                 ELSE delete_specific_version_unlink(S, row)
    IN  [S |-> [S1 EXCEPT !.file_versions = SelectSeq2(@, idx)], ok |-> TRUE]

delete_specific_version(S, file_path, timestamp) ==
    LET idx == Matching(S, file_path, timestamp) IN
    IF idx = {} THEN [S |-> S, ok |-> FALSE]
    ELSE
    LET row == S.file_versions[FirstOf(idx)]
        S1  == IF row.is_deduplicated /\ row.dedup_ref # NULL
                 THEN [S EXCEPT !.dedup_store =
                          {IF d.dedup_path = row.dedup_ref
                             THEN [d EXCEPT !.ref_count = @ - 1] ELSE d : d \in @}]
                 ELSE delete_specific_version_unlink(S, row)
    IN  [S |-> [S1 EXCEPT !.file_versions = SelectSeq2(@, idx)], ok |-> TRUE]

\* ------------------------------------------------------ cleanup_old_versions
\* cutoff is datetime.now() - retention_days, compared as a string with the
\* names of the directories of versions/ and with version_timestamp.
cleanup_old_versions(S, cutoff) ==
    LET old_dirs == {versions_dir \o <<ToString(t)>> : t \in {u \in Times : u < cutoff}}
    IN  [S EXCEPT !.disk = {f \in @ : ~\E dir \in old_dirs : IsPrefix(dir, f.path)},
                  !.file_versions =
                      SelectSeq2(@, {i \in RowIdx(S) : S.file_versions[i].version_timestamp < cutoff})]

\* ------------------------------------------------------------ cleanup_dedup
actual_refs(S, d) ==
    Cardinality({i \in RowIdx(S) : S.file_versions[i].dedup_ref = d.file_hash})

candidates(S) == {d \in S.dedup_store : d.ref_count <= 0}

\* Mutant of cleanup_dedup: the DELETE of the record is under the same
\* `if dedup_path.exists()` as the unlink.
cleanup_dedup_needing_blob(S) ==
    LET removed == {d \in candidates(S) : /\ actual_refs(S, d) = 0
                                          /\ exists(S.disk, BackupRoot \o d.dedup_path)}
        repaired == {d \in candidates(S) : actual_refs(S, d) > 0}
    IN  [S EXCEPT !.disk = {f \in @ : ~\E d \in removed : f.path = resolve(BackupRoot \o d.dedup_path)},
                  !.dedup_store = {IF d \in repaired
                                     THEN [d EXCEPT !.ref_count = actual_refs(S, d)] ELSE d
                                   : d \in (@ \ removed)}]

cleanup_dedup(S) ==
    LET repaired == {d \in candidates(S) : actual_refs(S, d) > 0}
        removed  == candidates(S) \ repaired
    IN  [S EXCEPT !.disk = {f \in @ : ~\E d \in removed : f.path = resolve(BackupRoot \o d.dedup_path)},
                  !.dedup_store = {IF d \in repaired
                                     THEN [d EXCEPT !.ref_count = actual_refs(S, d)] ELSE d
                                   : d \in (@ \ removed)}]

\* The stores a cleanup_dedup that stops inside its loop leaves: the blobs of
\* the candidates handled so far are unlinked, the DELETEs (and the repairs) are
\* not committed.
cleanup_dedup_interrupted(S) ==
    LET removed == {d \in candidates(S) : actual_refs(S, d) = 0}
    IN  {[S EXCEPT !.disk = {f \in @ : ~\E d \in done : f.path = resolve(BackupRoot \o d.dedup_path)}]
            : done \in (SUBSET removed) \ {{}}}

\* The loop of cleanup_dedup over the candidates its SELECT fetched, run on
\* the store as it is when the loop runs: the recount, the repair or the
\* unlink and the DELETE of every fetched candidate, and the commit.
cleanup_selected(S, selected) ==
    LET repaired == {c \in selected : actual_refs(S, c) > 0}
        removed  == selected \ repaired
    IN  [S EXCEPT !.disk = {f \in @ : ~\E c \in removed : f.path = resolve(BackupRoot \o c.dedup_path)},
                  !.dedup_store = {IF \E c \in repaired : c.file_hash = d.file_hash
                                     THEN [d EXCEPT !.ref_count = actual_refs(S, d)] ELSE d
                                   : d \in {x \in @ : ~\E c \in removed : c.file_hash = x.file_hash}}]

\* Two processes call delete_specific_version for the same version and both
\* SELECT its row before either writes. The first decrements ref_count,
\* deletes the rows and commits; the second still holds the row it fetched,
\* so its UPDATE decrements ref_count again and its DELETE finds no row.
delete_specific_version_twice(S, file_path, timestamp) ==
    LET idx == Matching(S, file_path, timestamp) IN
    IF idx = {} THEN [S |-> S, ok |-> FALSE]
    ELSE
    LET row   == S.file_versions[FirstOf(idx)]
        first == delete_specific_version(S, file_path, timestamp).S
    IN  [S |-> IF row.is_deduplicated /\ row.dedup_ref # NULL
                 THEN [first EXCEPT !.dedup_store =
                          {IF d.dedup_path = row.dedup_ref
                             THEN [d EXCEPT !.ref_count = @ - 1] ELSE d : d \in @}]
                 ELSE first,
         ok |-> TRUE]

\* ------------------------------------------------------------ get_statistics
\* The body starts at `cursor.execute(...)` (version_manager.py:675): no
\* connection is opened, `cursor` is not bound, and neither are
\* total_versions, unique_files, total_size, compressed_total_size and
\* compressed_count of the return statement. The first statement raises
\* NameError whatever the catalog holds.
get_statistics(S) == [ok |-> FALSE, error |-> "NameError", total_versions |-> 0]

\* -------------------------------------------------------------- list_versions
RECURSIVE newest_first(_, _)
\* ORDER BY version_timestamp DESC over the rows idx
newest_first(S, idx) ==
    IF idx = {} THEN <<>>
    ELSE LET top == CHOOSE i \in idx : \A j \in idx :
                       S.file_versions[j].version_timestamp <= S.file_versions[i].version_timestamp
         IN  <<S.file_versions[top]>> \o newest_first(S, idx \ {top})

\* VersionManager.list_versions(file_path): the rows of the path, newest first
list_versions(S, file_path) ==
    newest_first(S, {i \in RowIdx(S) : S.file_versions[i].file_path = file_path})

\* RestoreManager.list_versions_for_file: the timestamps of list_versions
list_versions_for_file(S, file_path) ==
    [k \in 1..Len(list_versions(S, file_path)) |->
        list_versions(S, file_path)[k].version_timestamp]

\* ----------------------------------------------------------- restore_version
decrypt_ok(d) == d.enc
decrypt_file(d) == [d EXCEPT !.enc = FALSE]
gunzip_ok(d) == d.gz /\ ~d.enc
gunzip(d) == [d EXCEPT !.gz = FALSE]

Failed == [ok |-> FALSE, out |-> Plain(<<>>)]

\* Returns the return value and the bytes written to the destination.
restore_version(S, file_path, timestamp) ==
    LET idx == Matching(S, file_path, timestamp) IN
    IF idx = {} THEN Failed
    ELSE
    LET row  == S.file_versions[FirstOf(idx)]
        hits == IF row.is_deduplicated /\ row.dedup_ref # NULL
                  THEN {d \in S.dedup_store : d.file_hash = row.dedup_ref} ELSE {}
        dd   == CHOOSE d \in hits : TRUE
        version_path_rel == IF hits # {} THEN dd.dedup_path ELSE row.version_path
        is_encrypted     == IF hits # {} THEN dd.is_encrypted ELSE row.is_encrypted
        source_path      == BackupRoot \o version_path_rel
    IN
    IF ~exists(S.disk, source_path) THEN Failed
    ELSE
    LET src == read(S.disk, source_path) IN
    IF is_encrypted /\ ~decrypt_ok(src) THEN Failed
    ELSE
    LET current_source == IF is_encrypted THEN decrypt_file(src) ELSE src IN
    IF row.is_compressed
      THEN (IF gunzip_ok(current_source)
              THEN [ok |-> TRUE, out |-> gunzip(current_source)] ELSE Failed)
      ELSE [ok |-> TRUE, out |-> current_source]

\* ================================================================ DeltaSync
Min(a, b) == IF a <= b THEN a ELSE b
RECURSIVE Sum(_)
Sum(data) == IF data = <<>> THEN 0 ELSE Head(data) + Sum(Tail(data))

\* _rolling_hash: sum(data) % 2**32.  A block holds at most block_size bytes of
\* at most 255 each, so the sum stays below 2**32 and the reduction never acts.
_rolling_hash(data) == Sum(data)
\* hashlib.sha256(data).digest(), collision free
strong_hash(data) == [sha256 |-> data]

\* f.read(block_size) called until it returns b'': the chunks of a file
block_count(bytes) == (Len(bytes) + BlockSize - 1) \div BlockSize
chunk(bytes, num) == SubSeq(bytes, num * BlockSize + 1, Min((num + 1) * BlockSize, Len(bytes)))

calculate_signature(bytes) ==
    [file_size   |-> Len(bytes),
     block_size  |-> BlockSize,
     block_count |-> block_count(bytes),
     blocks      |-> [k \in 1..block_count(bytes) |->
                        [num |-> k - 1,
                         weak_hash |-> _rolling_hash(chunk(bytes, k - 1)),
                         strong_hash |-> strong_hash(chunk(bytes, k - 1)),
                         size |-> Len(chunk(bytes, k - 1))]]]

\* Mutant of lookup: a block matches on its weak hash alone.
lookup_weak_only(signature, block_data) ==
    {signature.blocks[k].num : k \in
        {j \in 1..Len(signature.blocks) :
            signature.blocks[j].weak_hash = _rolling_hash(block_data)}}

\* old_blocks = {(weak, strong): num}; (weak, strong) in old_blocks
lookup(signature, block_data) ==
    {signature.blocks[k].num : k \in
        {j \in 1..Len(signature.blocks) :
            /\ signature.blocks[j].weak_hash = _rolling_hash(block_data)
            /\ signature.blocks[j].strong_hash = strong_hash(block_data)}}

\* a dict comprehension keeps the last value of a repeated key
old_blocks_num(nums) == CHOOSE n \in nums : \A m \in nums : m <= n

BlockOp(num, position) == [type |-> "block", block_num |-> num, data |-> <<>>, position |-> position]
DataOp(data, position) == [type |-> "data", block_num |-> 0, data |-> data, position |-> position]

\* delta_ops[-1]['data'] += data, or a new 'data' operation
append_data(ops, data, position) ==
    IF ops = <<>> \/ ops[Len(ops)].type # "data"
      THEN Append(ops, DataOp(data, position))
      ELSE [ops EXCEPT ![Len(ops)].data = @ \o data]

RECURSIVE delta_ops(_, _, _)
\* the operations after the first n chunks of source
delta_ops(source, signature, n) ==
    IF n = 0 THEN <<>>
    ELSE LET ops      == delta_ops(source, signature, n - 1)
             buffer   == chunk(source, n - 1)
             position == (n - 1) * signature.block_size
             found    == lookup(signature, buffer)
         IN  IF Len(buffer) >= signature.block_size /\ found # {}
               THEN Append(ops, BlockOp(old_blocks_num(found), position))
               ELSE append_data(ops, buffer, position)

generate_delta(source, signature) ==
    LET ops == delta_ops(source, signature, block_count(source)) IN
    [operations |-> ops,
     matched_blocks |-> Cardinality({k \in 1..Len(ops) : ops[k].type = "block"}),
     total_ops |-> Len(ops)]

RECURSIVE apply_ops(_, _)
apply_ops(base, ops) ==
    IF ops = <<>> THEN [ok |-> TRUE, out |-> <<>>]
    ELSE LET op   == Head(ops)
             rest == apply_ops(base, Tail(ops))
         IN  IF op.type = "block" /\ op.block_num >= block_count(base)
               THEN [ok |-> FALSE, out |-> <<>>]              \* KeyError
             ELSE IF ~rest.ok THEN rest
             ELSE [ok |-> TRUE,
                   out |-> (IF op.type = "block" THEN chunk(base, op.block_num) ELSE op.data)
                           \o rest.out]

\* The bytes written to output_file; ok is FALSE when an exception is raised.
apply_delta(base, delta) == apply_ops(base, delta.operations)

\* ===================================================== delta sync, server side
LatestRows(S, relative_path) ==
    {i \in RowIdx(S) :
        /\ S.file_versions[i].file_path = relative_path
        /\ \A j \in RowIdx(S) :
              S.file_versions[j].file_path = relative_path
                => S.file_versions[j].version_timestamp <= S.file_versions[i].version_timestamp}

\* Row i is the row ORDER BY version_timestamp DESC LIMIT 1 returns (any of the
\* latest rows when several share the timestamp).  A '.gz' suffix of the path
\* and gzip-framed bytes go together (see pipeline), and a failed gunzip falls
\* back to a plain copy, so the decompression step gunzips exactly the
\* gzip-framed bytes.
_restore_latest_to_temp(S, i) ==
    LET row  == S.file_versions[i]
        hits == IF row.is_deduplicated /\ row.dedup_ref # NULL
                  THEN {d \in S.dedup_store : d.file_hash = row.dedup_ref} ELSE {}
        dd   == CHOOSE d \in hits : TRUE
        v_path == IF hits # {} THEN dd.dedup_path ELSE row.version_path
        is_enc == IF hits # {} THEN dd.is_encrypted ELSE row.is_encrypted
        src_path == BackupRoot \o v_path
    IN
    IF ~exists(S.disk, src_path) THEN Failed
    ELSE
    LET src == read(S.disk, src_path) IN
    IF is_enc /\ S.enable_encryption /\ ~decrypt_ok(src) THEN Failed
    ELSE
    LET curr == IF is_enc /\ S.enable_encryption THEN decrypt_file(src) ELSE src IN
    [ok |-> TRUE, out |-> IF gunzip_ok(curr) THEN gunzip(curr) ELSE curr]

\* relative_path is looked up as sent (it is validated only by save_version);
\* i is the latest row chosen by _restore_latest_to_temp.
save_file_from_delta(S, relative_path, delta_data, now, i) ==
    LET base_temp == _restore_latest_to_temp(S, i) IN
    IF ~base_temp.ok \/ base_temp.out.gz \/ base_temp.out.enc
      THEN [S |-> S, ok |-> FALSE]
    ELSE
    LET new_temp == apply_delta(base_temp.out.body, delta_data) IN
    IF ~new_temp.ok THEN [S |-> S, ok |-> FALSE]
    ELSE save_version(S, Plain(new_temp.out), relative_path, now)

\* ======================================================= EncryptionManager
\* A password is a string; "" stands for None and for the empty string, which
\* the code treats alike (`if password`).
Passwords  == {"", "p1", "p2"}
Salts      == {"s1", "s2"}          \* os.urandom(16)
Nonces     == {"n1", "n2"}          \* os.urandom(12)
MasterKeys == {"k1", "k2"}          \* AESGCM.generate_key(bit_length=256)

\* PBKDF2-HMAC-SHA256: distinct (password, salt) give distinct keys
_derive_kek(password, salt) == <<"kek", password, salt>>

\* AESGCM(key).encrypt(nonce, data, None) and decrypt: the tag verifies exactly
\* under the key and nonce of the encryption
AESGCM_encrypt(key, nonce, data) == [key |-> key, nonce |-> nonce, data |-> data]
AESGCM_decrypt_ok(key, nonce, ct) == ct.key = key /\ ct.nonce = nonce

\* The JSON document written to key_file.  `self` is the manager in memory
\* (master_key, salt), `nonce` the fresh nonce.
_save_key_file(self, password, nonce) ==
    IF password # "" /\ self.salt # ""
      THEN [version |-> "3.0", salt |-> self.salt, mode |-> "wrapped", nonce |-> nonce,
            key |-> AESGCM_encrypt(_derive_kek(password, self.salt), nonce, self.master_key)]
      ELSE [version |-> "3.0", salt |-> self.salt, mode |-> "raw", nonce |-> "",
            key |-> AESGCM_encrypt("", "", self.master_key)]

\* _load_key_file of a version 3.0 document: ok, the master key, or the error
KeyLoadFailed(error) == [ok |-> FALSE, master_key |-> "", error |-> error]
_load_key_file(data, password) ==
    IF data.mode = "wrapped"
      THEN IF password = "" THEN KeyLoadFailed("Password required to unlock this key file.")
           ELSE IF data.salt = "" THEN KeyLoadFailed("Corrupt key file: Wrapped mode without salt.")
           ELSE IF AESGCM_decrypt_ok(_derive_kek(password, data.salt), data.nonce, data.key)
                  THEN [ok |-> TRUE, master_key |-> data.key.data, error |-> ""]
                  ELSE KeyLoadFailed("Incorrect password.")
      ELSE [ok |-> TRUE, master_key |-> data.key.data, error |-> ""]

\* change_password (the second definition of the class, which replaces the
\* first): the old password is verified by loading the key file in a temporary
\* manager, then the master key in memory is saved under a fresh salt.
change_password(self, data, old_password, new_password, salt, nonce) ==
    IF ~_load_key_file(data, old_password).ok
      THEN [ok |-> FALSE, self |-> self, key_file |-> data]
      ELSE LET self2 == [self EXCEPT !.salt = salt] IN
           [ok |-> TRUE, self |-> self2, key_file |-> _save_key_file(self2, new_password, nonce)]

\* --------------------------------------------------------- RetentionManager
\* A datetime is [year, month, day, hour]; a timestamp string is the format it
\* was written in and the datetime its digits spell.
StoredFormat  == "%Y-%m-%d_%H-%M-%S-%f"     \* save_version, delete_file
PruningFormat == "%Y%m%d_%H%M%S"            \* _calculate_pruning

DateTime(y, m, d, h) == [year |-> y, month |-> m, day |-> d, hour |-> h]

strftime(dt, format) == [format |-> format, digits |-> dt]

\* datetime.strptime: the separators of the format must be those of the string
strptime(ts_str, format) ==
    IF ts_str.format = format
      THEN [ok |-> TRUE, dt |-> ts_str.digits]
      ELSE [ok |-> FALSE, dt |-> ts_str.digits]     \* ValueError

is_leap(y) == y % 4 = 0 /\ (y % 100 # 0 \/ y % 400 = 0)

days_before_month(y, m) ==
    <<0, 31, 59, 90, 120, 151, 181, 212, 243, 273, 304, 334>>[m]
        + (IF m > 2 /\ is_leap(y) THEN 1 ELSE 0)

yday(dt) == days_before_month(dt.year, dt.month) + dt.day

toordinal(dt) ==
    LET y == dt.year - 1
    IN  y * 365 + (y \div 4) - (y \div 100) + (y \div 400) + yday(dt)

\* now - dt, in hours
age(now, dt) == (toordinal(now) - toordinal(dt)) * 24 + (now.hour - dt.hour)

days(n) == n * 24

\* strftime('%Y-%m-%d'), strftime('%Y-%U'), strftime('%Y-%m'); %U counts the
\* weeks from the first Sunday of the year on
day_key(dt)   == <<dt.year, dt.month, dt.day>>
week_key(dt)  == <<dt.year, (yday(dt) - 1 + 7 - (toordinal(dt) % 7)) \div 7>>
month_key(dt) == <<dt.year, dt.month>>

RECURSIVE pruning_keep(_, _, _)
\* The loop of _calculate_pruning over timestamp_strings[1..n]: the keep set
\* and the three buckets after n iterations.
pruning_keep(timestamp_strings, now, n) ==
    IF n = 0 THEN [keep |-> {}, daily_bucket |-> {}, weekly_bucket |-> {}, monthly_bucket |-> {}]
    ELSE
    LET b      == pruning_keep(timestamp_strings, now, n - 1)
        ts_str == timestamp_strings[n]
        p      == strptime(ts_str, PruningFormat)
        dt     == p.dt
        a      == age(now, dt)
    IN  IF ~p.ok THEN b
        ELSE IF a < days(1) THEN [b EXCEPT !.keep = @ \cup {ts_str}]
        ELSE IF a < days(7) THEN
            IF day_key(dt) \notin b.daily_bucket
              THEN [b EXCEPT !.keep = @ \cup {ts_str}, !.daily_bucket = @ \cup {day_key(dt)}]
              ELSE b
        ELSE IF a < days(28) THEN
            IF week_key(dt) \notin b.weekly_bucket
              THEN [b EXCEPT !.keep = @ \cup {ts_str}, !.weekly_bucket = @ \cup {week_key(dt)}]
              ELSE b
        ELSE IF a < days(365) THEN
            IF month_key(dt) \notin b.monthly_bucket
              THEN [b EXCEPT !.keep = @ \cup {ts_str}, !.monthly_bucket = @ \cup {month_key(dt)}]
              ELSE b
        ELSE b

\* the timestamps to delete, in the order given
_calculate_pruning(timestamp_strings, now) ==
    LET keep == pruning_keep(timestamp_strings, now, Len(timestamp_strings)).keep
    IN  SelectSeq(timestamp_strings, LAMBDA ts : ts \notin keep)

\* A sort key of the timestamp strings of one format: their string order is
\* the order of the datetimes.
stamp_key(ts_str) == toordinal(ts_str.digits) * 24 + ts_str.digits.hour

RECURSIVE order_by_desc(_)
order_by_desc(stamps) ==
    IF stamps = {} THEN <<>>
    ELSE LET top == CHOOSE t \in stamps : \A u \in stamps : stamp_key(u) <= stamp_key(t)
         IN  <<top>> \o order_by_desc(stamps \ {top})

\* SELECT version_timestamp FROM file_versions WHERE file_path = ?
\*   ORDER BY version_timestamp DESC
version_timestamps(S, file_path) ==
    order_by_desc({S.file_versions[i].version_timestamp :
                      i \in {j \in RowIdx(S) : S.file_versions[j].file_path = file_path}})

\* prune_history as it runs: VersionManager has no get_file_versions, so the
\* first statement raises AttributeError and nothing after it is executed.
prune_history(S, file_path, now) ==
    [S |-> S, ok |-> FALSE, pruned |-> 0, error |-> "AttributeError"]

\* -------------------------------------------------------------- BackupAgent
\* A line of the agent's standard output: a JSON object written by respond
\* (json = TRUE, with the request it answers, 0 for the ready frame) or text
\* written by a print of the code the handler calls (json = FALSE).
respond(out, n, body) == Append(out, [json |-> TRUE, request |-> n, body |-> body])
printed(out, n) == Append(out, [json |-> FALSE, request |-> n, body |-> "text"])

\* The prints of save_version: the error line, nothing on the unchanged
\* path, else the line of get_or_create_dedup_file (with deduplication) and
\* "Version sauvegardee".
save_version_prints(S, r, out, n) ==
    IF ~r.ok THEN printed(out, n)
    ELSE IF r.S = S THEN out
    ELSE IF S.enable_deduplication THEN printed(printed(out, n), n)
    ELSE printed(out, n)

handle_save_version(S, out, n, cmd, t) ==
    LET r == save_version(S, Plain(cmd.data), cmd.path, t)
    IN  {[S |-> r.S,
          out |-> respond(save_version_prints(S, r, out, n), n, IF r.ok THEN "ok" ELSE "error")]}

handle_delete_file(S, out, n, cmd, t) ==
    LET r == delete_file(S, cmd.path, t)
    IN  {[S |-> r.S,
          out |-> respond(IF ~r.ok \/ r.S # S THEN printed(out, n) ELSE out,
                          n, IF r.ok THEN "ok" ELSE "error")]}

\* save_file_from_delta returns False without a word when there is no latest
\* row or its blob is missing, and prints when a step raised.
handle_save_delta(S, out, n, cmd, t) ==
    IF ~cmd.has_delta \/ LatestRows(S, cmd.path) = {}
      THEN {[S |-> S, out |-> respond(out, n, "error")]}
    ELSE
    {LET base == _restore_latest_to_temp(S, i)
         r    == save_file_from_delta(S, cmd.path, cmd.delta, t, i)
         out1 == IF ~base.ok THEN out
                 ELSE IF base.out.gz \/ base.out.enc \/ ~apply_delta(base.out.body, cmd.delta).ok
                   THEN printed(out, n)
                 ELSE save_version_prints(S, r, out, n)
     IN  [S |-> r.S, out |-> respond(out1, n, IF r.ok THEN "ok" ELSE "error")]
        : i \in LatestRows(S, cmd.path)}

\* With a path, and without one as soon as the catalog names a file,
\* prune_history raises: "Prune Error" is printed and the answer is an error.
handle_prune(S, out, n, cmd, t) ==
    IF cmd.path # NULL \/ S.file_versions # <<>>
      THEN LET r == prune_history(S, cmd.path, t)
           IN  {[S |-> r.S, out |-> respond(IF r.ok THEN out ELSE printed(out, n), n,
                                           IF r.ok THEN "ok" ELSE "error")]}
      ELSE {[S |-> S, out |-> respond(out, n, "ok")]}

\* `from gc import cleanup_dedup` finds the interpreter's own gc module, which
\* has no cleanup_dedup: ImportError, answered as an error.
handle_gc(S, out, n) == {[S |-> S, out |-> respond(out, n, "error")]}

\* Mutant of process_command: an unknown command is dropped without an answer.
process_command_dropping_unknown(S, out, n, cmd, t) ==
    IF ~cmd.json THEN {[S |-> S, out |-> respond(out, n, "error")]}
    ELSE IF cmd.cmd = "ping" THEN {[S |-> S, out |-> respond(out, n, "pong")]}
    ELSE IF cmd.cmd = "save_version" THEN handle_save_version(S, out, n, cmd, t)
    ELSE IF cmd.cmd = "delete_file" THEN handle_delete_file(S, out, n, cmd, t)
    ELSE IF cmd.cmd = "save_delta" THEN handle_save_delta(S, out, n, cmd, t)
    ELSE IF cmd.cmd = "prune" THEN handle_prune(S, out, n, cmd, t)
    ELSE IF cmd.cmd = "gc" THEN handle_gc(S, out, n)
    ELSE {[S |-> S, out |-> out]}

\* One line read by run: the outcomes of handling it.
process_command(S, out, n, cmd, t) ==
    IF ~cmd.json THEN {[S |-> S, out |-> respond(out, n, "error")]}
    ELSE IF cmd.cmd = "ping" THEN {[S |-> S, out |-> respond(out, n, "pong")]}
    ELSE IF cmd.cmd = "save_version" THEN handle_save_version(S, out, n, cmd, t)
    ELSE IF cmd.cmd = "delete_file" THEN handle_delete_file(S, out, n, cmd, t)
    ELSE IF cmd.cmd = "save_delta" THEN handle_save_delta(S, out, n, cmd, t)
    ELSE IF cmd.cmd = "prune" THEN handle_prune(S, out, n, cmd, t)
    ELSE IF cmd.cmd = "gc" THEN handle_gc(S, out, n)
    ELSE {[S |-> S, out |-> respond(out, n, "error")]}

\* ---------------------------------------------------------- SecureSSHClient
BLOCK_SIZE   == 4096    \* DeltaSync.BLOCK_SIZE
MinDeltaSize == 4096    \* send_file: local_size > 4096
BlockRefSize == 8       \* calculate_transfer_size: a block reference
MinReduction == 10      \* send_file: eff['reduction_percent'] > 10

\* A delta is summed up by its block references (each stands for BLOCK_SIZE
\* bytes of the file, generate_delta matching whole blocks only) and its
\* literal bytes.
calculate_transfer_size(blocks, literal) == blocks * BlockRefSize + literal

\* get_efficiency(...)['reduction_percent'] > percent, that is
\* (1 - transfer_size / original_size) * 100 > percent; the rounding of the
\* division is far below the step 1 / original_size between two ratios.
reduction_exceeds(original_size, transfer_size, percent) ==
    /\ original_size > 0
    /\ (original_size - transfer_size) * 100 > percent * original_size

\* _send_agent_command: json.dumps(cmd) raises on the bytes of a literal
\* operation, nothing is written and None is returned; else the line goes to
\* the agent and its answer comes back.
_send_agent_command(wire, cmd, serialisable, answer) ==
    IF serialisable THEN [wire |-> Append(wire, cmd), resp |-> answer]
                    ELSE [wire |-> wire, resp |-> "None"]

\* Mutant of send_file: the size of the file is not looked at.
send_file_of_any_size(f) ==
    LET sig   == _send_agent_command(<<>>, "get_signature", TRUE, f.sig_resp)
        delta_sent ==
            _send_agent_command(sig.wire, "save_delta", f.literal = 0, f.delta_resp)
        full(w) == _send_agent_command(w, "save_version", TRUE, "ok").wire
    IN  IF sig.resp = "ok"
             /\ reduction_exceeds(f.local_size,
                                  calculate_transfer_size(f.blocks, f.literal), MinReduction)
          THEN IF delta_sent.resp = "ok" THEN delta_sent.wire ELSE full(delta_sent.wire)
          ELSE full(sig.wire)

\* send_file: the request lines written to the agent, in order.  f gives the
\* size of the local file, the agent's answers to get_signature and to
\* save_delta, and the delta generate_delta computes.
send_file(f) ==
    LET sig   == _send_agent_command(<<>>, "get_signature", TRUE, f.sig_resp)
        delta_sent ==
            _send_agent_command(sig.wire, "save_delta", f.literal = 0, f.delta_resp)
        full(w) == _send_agent_command(w, "save_version", TRUE, "ok").wire
    IN  IF sig.resp = "ok" /\ f.local_size > MinDeltaSize
             /\ reduction_exceeds(f.local_size,
                                  calculate_transfer_size(f.blocks, f.literal), MinReduction)
          THEN IF delta_sent.resp = "ok" THEN delta_sent.wire ELSE full(delta_sent.wire)
          ELSE full(sig.wire)

\* ================================================================ variables
VARIABLES
    sync_pc,           \* delta sync: "idle", "start", "signed", "delta", "applied"
    base_file,          \* the baseline B, on the server
    target_file,        \* the target T, on the client
    signature,          \* calculate_signature(B)
    delta,              \* generate_delta(T, signature)
    output_file         \* what apply_delta wrote (ok = FALSE: it raised)

deltaVars == <<sync_pc, base_file, target_file, signature, delta, output_file>>

VARIABLES
    key_file,           \* the JSON document of the key file
    manager,            \* the EncryptionManager in memory: master_key, salt
    password,           \* the password the key file was last saved under
    rotations,          \* change_password calls that succeeded
    loaded              \* the outcome of the last EncryptionManager(password, key_file)

keyVars == <<key_file, manager, password, rotations, loaded>>

VARIABLES
    prune_now,          \* retention: datetime.now() of the prune run
    to_delete,          \* the outcome of _calculate_pruning on a path's timestamps
    pruned              \* the outcome of the prune command

pruneVars == <<prune_now, to_delete, pruned>>

VARIABLES
    stdout,             \* agent: the lines written to standard output
    requests,           \* the request lines read so far
    request,            \* the last request line read
    agent_pc            \* "idle", "ready" (in the loop of run), "closed"

agentVars == <<stdout, requests, request, agent_pc>>

VARIABLES
    local_file,         \* client: the file send_file is called for, and the agent's answers
    wire                \* the request lines send_file wrote to the agent

clientVars == <<local_file, wire>>

VARIABLES
    second_agent        \* a second BackupAgent process on the same backup root:
                        \* pc, stdout, requests, wrote (it changed the store)

VARIABLES
    gc_run,             \* a gc.py process between its SELECT of the candidates and
                        \* its sweep: the candidates it fetched
    saver               \* a save_version between get_or_create_dedup_file and
                        \* record_version: its locals

raceVars == <<gc_run, saver>>

VARIABLES
    running,            \* agent: self.running, cleared by handle_signal and by respond
    transport           \* the agent's pipes: "open", "eof" (standard input closed),
                        \* "broken" (nobody reads its standard output)

loopVars == <<running, transport>>

restVars == <<pruneVars, agentVars, clientVars, second_agent, raceVars, loopVars>>

vars == <<storeVars, deltaVars, keyVars, restVars>>

None == [none |-> TRUE]

IdleStore ==
    /\ enable_compression = FALSE /\ enable_deduplication = FALSE /\ enable_encryption = FALSE
    /\ file_versions = <<>> /\ dedup_store = {} /\ disk = {}

IdleDelta ==
    /\ sync_pc = "idle" /\ base_file = <<>> /\ target_file = <<>>
    /\ signature = None /\ delta = None /\ output_file = None

IdleKey ==
    /\ key_file = None /\ manager = None /\ password = "" /\ rotations = 0 /\ loaded = None

IdlePrune ==
    /\ prune_now = None /\ to_delete = None /\ pruned = None

IdleAgent ==
    /\ stdout = <<>> /\ requests = 0 /\ request = None /\ agent_pc = "idle"

IdleClient ==
    /\ local_file = None /\ wire = <<>>

IdleSecond ==
    second_agent = [pc |-> "idle", stdout |-> <<>>, requests |-> 0, wrote |-> FALSE]

IdleRace ==
    gc_run = None /\ saver = None

IdleLoop ==
    /\ running = TRUE /\ transport = "open"

IdleRest == IdlePrune /\ IdleAgent /\ IdleClient /\ IdleSecond /\ IdleRace /\ IdleLoop

\* ================================================================ the store
\* The two configurations the repository builds a VersionManager with: the
\* defaults (agent.py, gc.py, restore.py) and deduplication off (the tests).
InitStore ==
    /\ enable_compression = TRUE
    /\ enable_deduplication \in BOOLEAN
    /\ enable_encryption = TRUE
    /\ file_versions = <<>>
    /\ dedup_store = {}
    /\ disk = {}

Bounded(S) ==
    /\ Len(S.file_versions) <= MaxVersions
    /\ \A d \in S.dedup_store : d.ref_count <= MaxRefs

Becomes(S) ==
    /\ Bounded(S)
    /\ file_versions' = S.file_versions
    /\ dedup_store' = S.dedup_store
    /\ disk' = S.disk
    /\ UNCHANGED <<enable_compression, enable_deduplication, enable_encryption>>
    /\ UNCHANGED <<deltaVars, keyVars, restVars>>

SaveVersionOn(paths) ==
    \E p \in paths, c \in Contents, now \in Times :
        Becomes(save_version(Store, Plain(c), p, now).S)

DeleteFileOn(paths) ==
    \E p \in paths, now \in Times :
        Becomes(delete_file(Store, p, now).S)

\* The deltas a client computes for a target against the signature of a baseline
Deltas == {generate_delta(target, calculate_signature(base)) :
              base \in Contents, target \in Contents}

SaveDeltaOn(paths) ==
    \E p \in paths :
        \E i \in LatestRows(Store, p) :
            \E d \in Deltas, now \in Times :
                Becomes(save_file_from_delta(Store, p, d, now, i).S)

SaveVersion == SaveVersionOn(Paths)
DeleteFile  == DeleteFileOn(Paths)
SaveDelta   == SaveDeltaOn(Paths)

\* RetentionManager.prune_history calls it with timestamps read from the catalog
DeleteSpecificVersion ==
    \E i \in RowIdx(Store) :
        Becomes(delete_specific_version(Store, file_versions[i].file_path,
                                        file_versions[i].version_timestamp).S)

CleanupOldVersions ==
    \E cutoff \in 1..(MaxTime + 1) :
        Becomes(cleanup_old_versions(Store, cutoff))

Gc == Becomes(cleanup_dedup(Store))

Next ==
    \/ SaveVersion
    \/ DeleteFile
    \/ SaveDelta
    \/ DeleteSpecificVersion
    \/ CleanupOldVersions
    \/ Gc

Init == InitStore /\ IdleDelta /\ IdleKey /\ IdleRest

Spec == Init /\ [][Next]_vars

\* ------------------------------------------------- the store, with crashes
\* The process is killed between two steps of an operation and restarted on
\* the same backup root.
CrashSaveVersion ==
    \E p \in Paths, c \in Contents, now \in Times :
        \E S \in save_version_interrupted(Store, Plain(c), p, now) : Becomes(S)

CrashDeleteSpecificVersion ==
    \E i \in RowIdx(Store) :
        /\ Matching(Store, file_versions[i].file_path, file_versions[i].version_timestamp) # {}
        /\ Becomes(delete_specific_version_unlink(Store,
              file_versions[FirstOf(Matching(Store, file_versions[i].file_path,
                                             file_versions[i].version_timestamp))]))

CrashGc == \E S \in cleanup_dedup_interrupted(Store) : Becomes(S)

NextCrash ==
    \/ SaveVersion
    \/ DeleteFile
    \/ SaveDelta
    \/ DeleteSpecificVersion
    \/ CleanupOldVersions
    \/ Gc
    \/ CrashSaveVersion
    \/ CrashDeleteSpecificVersion
    \/ CrashGc

SpecCrash == Init /\ [][NextCrash]_vars

\* ------------------------------------------------ saves only, of any client
SaveVersionAnyPath == SaveVersionOn(RawPaths)
SaveDeltaAnyPath   == SaveDeltaOn(RawPaths)

NextSaves ==
    \/ SaveVersionAnyPath
    \/ SaveDeltaAnyPath

SpecSaves == Init /\ [][NextSaves]_vars

\* ------------------------------- save_version and delete_file of any client
DeleteFileAnyPath == DeleteFileOn(RawPaths)

NextPaths ==
    \/ SaveVersionAnyPath
    \/ DeleteFileAnyPath

SpecPaths == Init /\ [][NextPaths]_vars

\* =============================================================== delta sync
Files == UNION {[1..n -> Bytes] : n \in 0..MaxLen}

InitDelta ==
    /\ sync_pc = "start"
    /\ base_file \in Files
    /\ target_file \in Files
    /\ signature = None /\ delta = None /\ output_file = None

\* the server: get_signature
CalculateSignature ==
    /\ sync_pc = "start"
    /\ signature' = calculate_signature(base_file)
    /\ sync_pc' = "signed"
    /\ UNCHANGED <<base_file, target_file, delta, output_file, storeVars, keyVars, restVars>>

\* the client
GenerateDelta ==
    /\ sync_pc = "signed"
    /\ delta' = generate_delta(target_file, signature)
    /\ sync_pc' = "delta"
    /\ UNCHANGED <<base_file, target_file, signature, output_file, storeVars, keyVars, restVars>>

\* the server: save_delta
ApplyDelta ==
    /\ sync_pc = "delta"
    /\ output_file' = apply_delta(base_file, delta)
    /\ sync_pc' = "applied"
    /\ UNCHANGED <<base_file, target_file, signature, delta, storeVars, keyVars, restVars>>

NextDelta ==
    \/ CalculateSignature
    \/ GenerateDelta
    \/ ApplyDelta

InitSync == IdleStore /\ InitDelta /\ IdleKey /\ IdleRest

SpecDelta == InitSync /\ [][NextDelta]_vars

\* ================================================================= key file
\* The key file a first run with a password leaves (the "New Setup" branch of
\* __init__), and the manager that wrote it.
InitKey ==
    \E pw \in Passwords \ {""}, salt \in Salts, nonce \in Nonces, k \in MasterKeys :
        /\ manager = [master_key |-> k, salt |-> salt]
        /\ key_file = _save_key_file([master_key |-> k, salt |-> salt], pw, nonce)
        /\ password = pw
        /\ rotations = 0
        /\ loaded = None

\* change_password(old, new); a wrong old password raises and changes nothing
ChangePassword ==
    \E old \in Passwords, new \in Passwords, salt \in Salts, nonce \in Nonces :
        LET r == change_password(manager, key_file, old, new, salt, nonce) IN
        /\ rotations < MaxRotations
        /\ IF r.ok
             THEN /\ key_file' = r.key_file
                  /\ manager' = r.self
                  /\ password' = new
                  /\ rotations' = rotations + 1
             ELSE UNCHANGED <<key_file, manager, password, rotations>>
        /\ UNCHANGED <<loaded, storeVars, deltaVars, restVars>>

\* EncryptionManager(password = p, key_file) of another process
LoadKeyFile ==
    \E p \in Passwords :
        /\ loaded' = [password |-> p, result |-> _load_key_file(key_file, p)]
        /\ UNCHANGED <<key_file, manager, password, rotations, storeVars, deltaVars, restVars>>

NextKey ==
    \/ ChangePassword
    \/ LoadKeyFile

InitKeyFile == IdleStore /\ IdleDelta /\ InitKey /\ IdleRest

SpecKey == InitKeyFile /\ [][NextKey]_vars

\* ================================================================ retention
\* The instants of a prune run, and the datetimes of the versions it finds:
\* 1 h and 23 h old, two of one day three days back, two of one week and one
\* of the week before two to three weeks back, two of one month and one of
\* another some months back, one of more than a year ago.
Nows == { DateTime(2026, 11, 1, 9) }

DateTimes ==
    { DateTime(2026, 11, 1, 8), DateTime(2026, 10, 31, 10),
      DateTime(2026, 10, 29, 8), DateTime(2026, 10, 29, 20),
      DateTime(2026, 10, 20, 8), DateTime(2026, 10, 22, 8), DateTime(2026, 10, 15, 8),
      DateTime(2026, 9, 10, 8), DateTime(2026, 9, 20, 8), DateTime(2026, 6, 1, 8),
      DateTime(2025, 10, 1, 8) }

RECURSIVE saved_at(_, _)
\* The store after one save_version of the path "a" at each of the datetimes,
\* oldest first, the content changing from one save to the next.
saved_at(S, dts) ==
    IF dts = {} THEN S
    ELSE LET last == CHOOSE t \in dts : \A u \in dts : stamp_key(strftime(u, StoredFormat)) <= stamp_key(strftime(t, StoredFormat))
             S1   == saved_at(S, dts \ {last})
             c    == IF Cardinality(dts) % 2 = 1 THEN <<1>> ELSE <<1, 2>>
         IN  save_version(S1, Plain(c), <<"a">>, strftime(last, StoredFormat)).S

InitPrune ==
    /\ enable_compression = TRUE
    /\ enable_deduplication \in BOOLEAN
    /\ enable_encryption = TRUE
    /\ \E dts \in SUBSET DateTimes :
          /\ Cardinality(dts) <= MaxStamps
          /\ LET S == saved_at([enable_compression |-> TRUE,
                                enable_deduplication |-> enable_deduplication,
                                enable_encryption |-> TRUE,
                                file_versions |-> <<>>, dedup_store |-> {}, disk |-> {}], dts)
             IN  /\ file_versions = S.file_versions
                 /\ dedup_store = S.dedup_store
                 /\ disk = S.disk
    /\ prune_now \in Nows
    /\ to_delete = None
    /\ pruned = None

\* RetentionManager._calculate_pruning on the timestamps of the path, as
\* prune_history hands them over (retention.py:50-51)
CalculatePruning ==
    /\ to_delete' = [ts_list |-> version_timestamps(Store, <<"a">>),
                     out |-> _calculate_pruning(version_timestamps(Store, <<"a">>), prune_now)]
    /\ UNCHANGED <<prune_now, pruned, storeVars, deltaVars, keyVars, agentVars, clientVars, second_agent, raceVars, loopVars>>

\* the prune command of the agent for one path
HandlePrune ==
    LET r == prune_history(Store, <<"a">>, prune_now) IN
    /\ file_versions' = r.S.file_versions
    /\ dedup_store' = r.S.dedup_store
    /\ disk' = r.S.disk
    /\ pruned' = [before |-> file_versions, ok |-> r.ok, pruned |-> r.pruned]
    /\ UNCHANGED <<enable_compression, enable_deduplication, enable_encryption>>
    /\ UNCHANGED <<prune_now, to_delete, deltaVars, keyVars, agentVars, clientVars, second_agent, raceVars, loopVars>>

NextPrune ==
    \/ CalculatePruning
    \/ HandlePrune

InitRetention == InitPrune /\ IdleDelta /\ IdleKey /\ IdleAgent /\ IdleClient /\ IdleSecond /\ IdleRace /\ IdleLoop

SpecPrune == InitRetention /\ [][NextPrune]_vars

\* ==================================================================== agent
\* The request lines of a client: a line that is not JSON, an unknown
\* command, and the commands with their fields.
Blank == [json |-> TRUE, cmd |-> "", path |-> NULL, data |-> <<>>, has_delta |-> FALSE, delta |-> None]

Lines ==
    { [Blank EXCEPT !.json = FALSE], [Blank EXCEPT !.cmd = "bogus"],
      [Blank EXCEPT !.cmd = "ping"], [Blank EXCEPT !.cmd = "gc"] }
    \cup { [Blank EXCEPT !.cmd = "prune", !.path = p] : p \in {NULL, <<"a">>} }
    \cup { [Blank EXCEPT !.cmd = "save_version", !.path = p, !.data = c] : p \in Paths, c \in Contents }
    \cup { [Blank EXCEPT !.cmd = "delete_file", !.path = p] : p \in Paths }
    \cup { [Blank EXCEPT !.cmd = "save_delta", !.path = p] : p \in Paths }
    \cup { [Blank EXCEPT !.cmd = "save_delta", !.path = p, !.has_delta = TRUE, !.delta = d]
              : p \in Paths, d \in Deltas }

\* BackupAgent(backup_root).run() up to the loop: the ready frame is out
InitAgent ==
    /\ stdout = respond(<<>>, 0, "ready")
    /\ requests = 0
    /\ request = None
    /\ agent_pc = "ready"

\* one turn of the loop of run: a line is read, handled and answered
ReadLine ==
    \E cmd \in Lines, t \in Times :
        \E o \in process_command(Store, stdout, requests + 1, cmd, t) :
            /\ agent_pc = "ready"
            /\ requests < MaxRequests
            /\ Bounded(o.S)
            /\ file_versions' = o.S.file_versions
            /\ dedup_store' = o.S.dedup_store
            /\ disk' = o.S.disk
            /\ stdout' = o.out
            /\ requests' = requests + 1
            /\ request' = cmd
            /\ UNCHANGED <<enable_compression, enable_deduplication, enable_encryption, agent_pc>>
            /\ UNCHANGED <<deltaVars, keyVars, pruneVars, clientVars, second_agent, raceVars, loopVars>>

\* readline returns '': the loop is left
EndOfInput ==
    /\ agent_pc = "ready"
    /\ agent_pc' = "closed"
    /\ UNCHANGED <<stdout, requests, request, storeVars, deltaVars, keyVars, pruneVars, clientVars, second_agent, raceVars, loopVars>>

NextAgent ==
    \/ ReadLine
    \/ EndOfInput

InitConnection == InitStore /\ IdleDelta /\ IdleKey /\ IdlePrune /\ InitAgent /\ IdleClient /\ IdleSecond /\ IdleRace /\ IdleLoop

SpecAgent == InitConnection /\ [][NextAgent]_vars

\* =================================================================== client
\* The sizes of a local file, around the 4096 bytes and the 10 % of send_file.
Sizes == {0, 4095, 4096, 4097, 8192, 8200, 40879, 40880, 40881}

\* The calls of send_file: a file of some size, of which the delta covers
\* `blocks` whole blocks by reference and the rest by literal bytes, and the
\* answers the agent gives.
Uploads ==
    {[local_size |-> n, blocks |-> b, literal |-> n - b * BLOCK_SIZE,
      sig_resp |-> s, delta_resp |-> d] :
        n \in Sizes, b \in 0..MaxBlocks,
        s \in {"ok", "not_found", "error"}, d \in {"ok", "error"}}

InitUpload ==
    /\ local_file \in {u \in Uploads : u.literal >= 0}
    /\ wire = <<>>

SendFile ==
    /\ wire = <<>>
    /\ wire' = send_file(local_file)
    /\ UNCHANGED <<local_file, storeVars, deltaVars, keyVars, pruneVars, agentVars, second_agent, raceVars, loopVars>>

NextClient == SendFile

InitClient == IdleStore /\ IdleDelta /\ IdleKey /\ IdlePrune /\ IdleAgent /\ InitUpload /\ IdleSecond /\ IdleRace /\ IdleLoop

SpecClient == InitClient /\ [][NextClient]_vars

\* ========================================================= two agents, one root
\* A second `agent.py <backup_root>` is started while the first is in its
\* loop. BackupAgent.__init__ builds a VersionManager on the root: the
\* directories exist (mkdir exist_ok), init_database finds its tables
\* (CREATE TABLE IF NOT EXISTS), and nothing looks for another process. run
\* then writes the ready frame to the second process's own standard output.
StartSecondAgent ==
    /\ agent_pc = "ready"
    /\ second_agent.pc = "idle"
    /\ second_agent' = [second_agent EXCEPT !.pc = "ready",
                                             !.stdout = respond(<<>>, 0, "ready")]
    /\ UNCHANGED <<storeVars, deltaVars, keyVars, pruneVars, agentVars, clientVars, raceVars, loopVars>>

\* one turn of the loop of run in the second process, on the same store
SecondReadLine ==
    \E cmd \in Lines, t \in Times :
        \E o \in process_command(Store, second_agent.stdout, second_agent.requests + 1, cmd, t) :
            /\ second_agent.pc = "ready"
            /\ requests + second_agent.requests < MaxTurns
            /\ Bounded(o.S)
            /\ file_versions' = o.S.file_versions
            /\ dedup_store' = o.S.dedup_store
            /\ disk' = o.S.disk
            /\ second_agent' = [second_agent EXCEPT
                                  !.stdout = o.out,
                                  !.requests = @ + 1,
                                  !.wrote = @ \/ o.S # Store]
            /\ UNCHANGED <<enable_compression, enable_deduplication, enable_encryption>>
            /\ UNCHANGED <<deltaVars, keyVars, pruneVars, agentVars, clientVars, raceVars, loopVars>>

\* the first process's turn, within the same bound on requests
FirstReadLine ==
    /\ requests + second_agent.requests < MaxTurns
    /\ ReadLine

SecondEndOfInput ==
    /\ second_agent.pc = "ready"
    /\ second_agent' = [second_agent EXCEPT !.pc = "closed"]
    /\ UNCHANGED <<storeVars, deltaVars, keyVars, pruneVars, agentVars, clientVars, raceVars, loopVars>>

NextAgents ==
    \/ FirstReadLine
    \/ EndOfInput
    \/ StartSecondAgent
    \/ SecondReadLine
    \/ SecondEndOfInput

SpecAgents == InitConnection /\ [][NextAgents]_vars

\* ================================================= processes on one catalog
\* gc.py, a save_version and two delete_specific_version calls as separate
\* processes on one backup root. Every statement that writes is committed by
\* its own connection: get_or_create_dedup_file commits before
\* record_version opens its connection, and gc.py fetches its candidates with
\* fetchall before the loop that sweeps them.
BecomesRaced(S) ==
    /\ Bounded(S)
    /\ \A d \in S.dedup_store : d.ref_count >= 0 - MaxDrift
    /\ file_versions' = S.file_versions
    /\ dedup_store' = S.dedup_store
    /\ disk' = S.disk
    /\ UNCHANGED <<enable_compression, enable_deduplication, enable_encryption>>
    /\ UNCHANGED <<deltaVars, keyVars, pruneVars, agentVars, clientVars, second_agent, loopVars>>

\* gc.py:32-38: the candidates are fetched; with none, gc returns at once
GcSelect ==
    /\ gc_run = None
    /\ candidates(Store) # {}
    /\ gc_run' = [selected |-> candidates(Store)]
    /\ UNCHANGED <<storeVars, deltaVars, keyVars, pruneVars, agentVars, clientVars, second_agent, saver, loopVars>>

\* gc.py:45-72: the loop over the fetched candidates, and the commit
GcSweep ==
    /\ gc_run # None
    /\ BecomesRaced(cleanup_selected(Store, gc_run.selected))
    /\ gc_run' = None
    /\ UNCHANGED saver

\* save_version up to the return of get_or_create_dedup_file
SaveDedup ==
    \E p \in Paths, c \in Contents, now \in Times :
        LET v        == _validate_path(p)
            data     == Plain(c)
            new_hash == calculate_hash(data)
            g        == get_or_create_dedup_file(Store, data, new_hash)
        IN  /\ saver = None
            /\ enable_deduplication
            /\ v.ok
            /\ ~unchanged(Store, data, v.clean_rel)
            /\ BecomesRaced(g.S)
            /\ saver' = [relative_path |-> v.clean_rel, data |-> data, new_hash |-> new_hash,
                         timestamp |-> now, dedup_ref |-> g.dedup_path,
                         is_new_file |-> ~exists(disk, current_dir \o v.clean_rel)]
            /\ UNCHANGED gc_run

\* ... and from record_version to the copy to current/<path>
SaveRecord ==
    /\ saver # None
    /\ BecomesRaced(
          [record_version(Store, saver.relative_path, saver.timestamp, saver.dedup_ref,
                          saver.new_hash, IF saver.is_new_file THEN "created" ELSE "modified",
                          enable_compression, TRUE, saver.dedup_ref, enable_encryption)
             EXCEPT !.disk = write(@, current_dir \o saver.relative_path, saver.data)])
    /\ saver' = None
    /\ UNCHANGED gc_run

DeleteSpecificVersionTwice ==
    \E i \in RowIdx(Store) :
        /\ BecomesRaced(delete_specific_version_twice(Store, file_versions[i].file_path,
                                                      file_versions[i].version_timestamp).S)
        /\ UNCHANGED raceVars

\* the defaults of VersionManager: deduplication on
InitDedup == InitStore /\ enable_deduplication

InitRace == InitDedup /\ IdleDelta /\ IdleKey /\ IdleRest

NextRace ==
    \/ DeleteSpecificVersion
    \/ DeleteSpecificVersionTwice
    \/ GcSelect
    \/ GcSweep
    \/ SaveDedup
    \/ SaveRecord

SpecRace == InitRace /\ [][NextRace]_vars

\* gc.py and save_version side by side, every ref_count being what the
\* operations of one process at a time made it
NextGcSave ==
    \/ DeleteSpecificVersion
    \/ GcSelect
    \/ GcSweep
    \/ SaveDedup
    \/ SaveRecord

SpecGcSave == InitRace /\ [][NextGcSave]_vars

\* ================================================ the loop of run and its end
\* SIGTERM or SIGINT is delivered while run waits in sys.stdin.readline():
\* handle_signal clears self.running and returns, and the interrupted read is
\* resumed (the handler raised nothing). The flag is looked at again by
\* `while self.running` only, after the read has returned.
HandleSignal ==
    /\ agent_pc = "ready"
    /\ running
    /\ running' = FALSE
    /\ UNCHANGED <<transport, storeVars, deltaVars, keyVars, pruneVars, agentVars, clientVars, second_agent, raceVars>>

\* the client closes the agent's standard input
CloseInput ==
    /\ agent_pc = "ready"
    /\ transport = "open"
    /\ transport' = "eof"
    /\ UNCHANGED <<running, storeVars, deltaVars, keyVars, pruneVars, agentVars, clientVars, second_agent, raceVars>>

\* the reader of the agent's standard output goes away
BreakOutput ==
    /\ agent_pc = "ready"
    /\ transport = "open"
    /\ transport' = "broken"
    /\ UNCHANGED <<running, storeVars, deltaVars, keyVars, pruneVars, agentVars, clientVars, second_agent, raceVars>>

\* One turn of the loop of run, with the test of `while self.running` that
\* follows it: readline returns a line whatever self.running is, the line is
\* handled, respond writes the answer or, on BrokenPipeError, clears
\* self.running; the loop goes on only if self.running is still set.
LoopReadLine ==
    \E cmd \in Lines, t \in Times :
        \E o \in process_command(Store, stdout, requests + 1, cmd, t) :
            /\ agent_pc = "ready"
            /\ transport # "eof"
            /\ requests < MaxTurns
            /\ Bounded(o.S)
            /\ file_versions' = o.S.file_versions
            /\ dedup_store' = o.S.dedup_store
            /\ disk' = o.S.disk
            /\ stdout' = IF transport = "broken" THEN stdout ELSE o.out
            /\ requests' = requests + 1
            /\ request' = cmd
            /\ running' = (running /\ transport # "broken")
            /\ agent_pc' = IF running' THEN "ready" ELSE "closed"
            /\ UNCHANGED <<enable_compression, enable_deduplication, enable_encryption, transport>>
            /\ UNCHANGED <<deltaVars, keyVars, pruneVars, clientVars, second_agent, raceVars>>

\* readline returns '' on a closed standard input: break
LoopEndOfInput ==
    /\ agent_pc = "ready"
    /\ transport = "eof"
    /\ agent_pc' = "closed"
    /\ UNCHANGED <<stdout, requests, request, loopVars, storeVars, deltaVars, keyVars, pruneVars, clientVars, second_agent, raceVars>>

NextLoop ==
    \/ HandleSignal
    \/ CloseInput
    \/ BreakOutput
    \/ LoopReadLine
    \/ LoopEndOfInput

SpecLoop == InitConnection /\ [][NextLoop]_vars

\* The agent takes the steps it can take alone: a read of a closed standard
\* input returns at once. A read of an open one returns when the client
\* writes a line, which nothing obliges the client to do.
SpecLoopLive == InitConnection /\ [][NextLoop]_vars /\ WF_vars(LoopEndOfInput)

\* =========================================== settings and the blobs on disk
\* A process builds a VersionManager on the root with other compression and
\* encryption settings than the one that wrote the store: the flags are
\* constructor arguments and nothing of them is kept in metadata.db.
Reopen ==
    \E c \in BOOLEAN, e \in BOOLEAN :
        /\ <<c, e>> # <<enable_compression, enable_encryption>>
        /\ enable_compression' = c
        /\ enable_encryption' = e
        /\ UNCHANGED <<enable_deduplication, file_versions, dedup_store, disk>>
        /\ UNCHANGED <<deltaVars, keyVars, restVars>>

\* two files of the client
SettingsPaths == {<<"a">>, <<"b">>}

SaveVersionAnywhere == SaveVersionOn(SettingsPaths)

\* a save during which gzip fails
SaveVersionCompressFailed ==
    \E p \in SettingsPaths, c \in Contents, now \in Times :
        /\ enable_compression
        /\ Becomes(save_version_compress_failed(Store, Plain(c), p, now).S)

NextSettings ==
    \/ SaveVersionAnywhere
    \/ SaveVersionCompressFailed
    \/ Reopen

SpecSettings == Init /\ [][NextSettings]_vars

\* =================================================================== claims
Row(i) == file_versions[i]

\* C1: after any sequence of save_version, save_delta, delete_file, prune and
\* gc, restore_version(V.path, V.timestamp) succeeds for every row V of the
\* catalog and writes bytes whose SHA-256 is V's recorded plaintext hash.
C1_RoundTrip ==
    \A i \in RowIdx(Store) :
        LET r == restore_version(Store, Row(i).file_path, Row(i).version_timestamp)
        IN  r.ok /\ <<calculate_hash(r.out)>> = Row(i).file_hash

\* The rows that designate dedup record d: by its hash, as the catalog scan of
\* cleanup_dedup counts them, or by its blob path, as save_version writes them.
Designating(d) ==
    {i \in RowIdx(Store) : Row(i).dedup_ref = d.file_hash \/ Row(i).dedup_ref = d.dedup_path}

\* C2: in every state reached by completed save_version, save_delta,
\* delete_file, delete_specific_version, cleanup_old_versions and gc, each
\* dedup record's ref_count is the number of rows whose dedup_ref designates it.
C2_RefCountIsCatalogCount ==
    \A d \in dedup_store : d.ref_count = Cardinality(Designating(d))

SavedHashes == {Row(i).file_hash : i \in RowIdx(Store)}
Blobs == {f \in disk : IsPrefix(dedup_dir, f.path)}

\* C3: with deduplication enabled, after any sequence of saves there is exactly
\* one dedup record per distinct plaintext hash saved, and as many files under
\* dedup_store/ as distinct hashes: a save of content already stored, to the
\* same or to another path, adds neither a blob nor a record.
C3_OneBlobPerHash ==
    enable_deduplication =>
        /\ {d.file_hash : d \in dedup_store} = SavedHashes
        /\ Cardinality(dedup_store) = Cardinality(SavedHashes)
        /\ Cardinality(Blobs) = Cardinality(SavedHashes)

\* Two paths hold the same content, stored once.
C3_Witness ==
    /\ enable_deduplication
    /\ \E i, j \in RowIdx(Store) :
          /\ Row(i).file_path # Row(j).file_path
          /\ Row(i).file_hash = Row(j).file_hash
    /\ Cardinality(Blobs) = 1
    /\ \E d \in dedup_store : d.ref_count = 2

\* C4: for every relative path argument, save_version and delete_file create,
\* overwrite, delete and read files inside the backup root only.
C4_PathSafety ==
    \A f \in disk : IsPrefix(BackupRoot, f.path)

\* C5: in every reachable state, the states a crash leaves included, every
\* row of the catalog references a blob that exists on disk.
C5_RowsHaveBlobs ==
    \A i \in RowIdx(Store) : exists(disk, BackupRoot \o Row(i).version_path)

\* Every file under dedup_store/ is the blob of some row of the catalog.
AllBlobsReferenced(S) ==
    \A f \in S.disk :
        IsPrefix(dedup_dir, f.path) =>
            \E i \in RowIdx(S) :
                \/ resolve(BackupRoot \o S.file_versions[i].version_path) = f.path
                \/ /\ S.file_versions[i].dedup_ref # NULL
                   /\ resolve(BackupRoot \o S.file_versions[i].dedup_ref) = f.path

\* C6: after a gc run completes, every blob under dedup_store/ is referenced
\* by at least one row of the catalog, the blobs a stopped save_version left
\* behind included.
C6_GcLeavesNoOrphan == AllBlobsReferenced(cleanup_dedup(Store))

\* C7: of two consecutive save_version calls with the same bytes for the same
\* (accepted) path, the first adds one row, or none when current/<path> held
\* the bytes already, and the second returns success and changes nothing: not
\* the catalog, not a ref_count, not a file.
C7_NoChangeFastPath ==
    \A p \in Paths, c \in Contents, t1 \in Times, t2 \in Times :
        LET first  == save_version(Store, Plain(c), p, t1)
            second == save_version(first.S, Plain(c), p, t2)
            held   == unchanged(Store, Plain(c), strip(p))
        IN  first.ok =>
              /\ second.ok
              /\ second.S = first.S
              /\ Len(first.S.file_versions) = Len(file_versions) + (IF held THEN 0 ELSE 1)

\* The first of the two calls has run: its row is the last of the catalog,
\* current/<path> holds its bytes, and the same call again is a no-op success.
C7_Witness ==
    \E p \in Paths, c \in Contents, t \in Times :
        /\ file_versions # <<>>
        /\ Row(Len(file_versions)).file_path = strip(p)
        /\ Row(Len(file_versions)).file_hash = <<calculate_hash(Plain(c))>>
        /\ Row(Len(file_versions)).action = "modified"
        /\ unchanged(Store, Plain(c), strip(p))
        /\ save_version(Store, Plain(c), p, t) = [S |-> Store, ok |-> TRUE]

\* C8: for any path, the timestamps of the rows that successive save_version,
\* save_delta and delete_file calls create are strictly increasing, whatever
\* the clock returns; no two rows of one path share a timestamp.
C8_TimestampsIncrease ==
    \A i, j \in RowIdx(Store) :
        (i < j /\ Row(i).file_path = Row(j).file_path)
            => Row(i).version_timestamp < Row(j).version_timestamp

\* C9: for any baseline B and target T,
\* apply_delta(B, generate_delta(T, calculate_signature(B))) writes T.
C9_DeltaFidelity ==
    sync_pc = "applied" => output_file = [ok |-> TRUE, out |-> target_file]

\* A baseline with a repeated block, one of its blocks matched, and a target
\* that is not a whole number of blocks.
C9_Witness ==
    /\ sync_pc = "applied"
    /\ block_count(base_file) >= 2
    /\ chunk(base_file, 0) = chunk(base_file, 1)
    /\ delta.matched_blocks > 0
    /\ Len(target_file) % BlockSize # 0
    /\ target_file # base_file
    /\ output_file.out = target_file

\* C10: after change_password on a password-wrapped key file, and after any
\* number of further rotations, the current password loads the master key the
\* file was created with and every other password fails to load it.
C10_OnlyCurrentPasswordUnlocks ==
    rotations > 0 =>
        \A p \in Passwords :
            LET r == _load_key_file(key_file, p) IN
            IF p = password THEN r.ok /\ r.master_key = manager.master_key
                            ELSE ~r.ok

\* The age of a catalog timestamp at the prune run.
AgeOf(ts) == age(prune_now, ts.digits)

Band(a) == IF a < days(1) THEN 0 ELSE IF a < days(7) THEN 1
           ELSE IF a < days(28) THEN 2 ELSE IF a < days(365) THEN 3 ELSE 4
Bucket(ts) ==
    LET b == Band(AgeOf(ts)) IN
    <<b, IF b = 1 THEN day_key(ts.digits) ELSE IF b = 2 THEN week_key(ts.digits)
         ELSE IF b = 3 THEN month_key(ts.digits) ELSE <<>> >>
GFSKeep(stamps) ==
    {ts \in stamps :
        \/ Band(AgeOf(ts)) = 0
        \/ /\ Band(AgeOf(ts)) \in 1..3
           /\ \A u \in stamps : Bucket(u) = Bucket(ts) => stamp_key(u) <= stamp_key(ts)}

Range(seq) == {seq[k] : k \in 1..Len(seq)}

\* C12: the versions prune deletes are exactly those outside the
\* Grandfather-Father-Son keep-set (all versions younger than 24 h, the newest
\* of each calendar day from 24 h to under 7 days, of each week from 7 to
\* under 28 days, of each calendar month from 28 to under 365 days, none of
\* 365 days or more): the deletion list is that complement, and after the
\* prune command the catalog holds the keep-set and nothing else.
C12_PruneDeletesComplementOfKeepSet ==
    /\ to_delete # None =>
          Range(to_delete.out) = Range(to_delete.ts_list) \ GFSKeep(Range(to_delete.ts_list))
    /\ pruned # None =>
          {Row(j).version_timestamp : j \in RowIdx(Store)}
              = GFSKeep({pruned.before[i].version_timestamp : i \in 1..Len(pruned.before)})

\* C13: delete_file(p) of an accepted path returns success in both cases.
\* When current/p exists it appends exactly one row for p, with action
\* "deleted" and the hash of the bytes current/p held, every earlier version
\* of p restores as it did before, and current/p is gone; when current/p does
\* not exist the catalog, the blobs and the shadow tree are unchanged.
C13_DeleteFileKeepsHistory ==
    \A p \in Paths, t \in Times :
        LET v   == _validate_path(p)
            rel == v.clean_rel
            cur == current_dir \o rel
            r   == delete_file(Store, p, t)
            n   == Len(file_versions)
        IN  v.ok =>
              /\ r.ok
              /\ IF exists(disk, cur)
                   THEN /\ Len(r.S.file_versions) = n + 1
                        /\ SubSeq(r.S.file_versions, 1, n) = file_versions
                        /\ r.S.file_versions[n + 1].file_path = rel
                        /\ r.S.file_versions[n + 1].action = "deleted"
                        /\ r.S.file_versions[n + 1].file_hash = <<calculate_hash(read(disk, cur))>>
                        /\ \A i \in RowIdx(Store) :
                              Row(i).file_path = rel =>
                                  restore_version(r.S, rel, Row(i).version_timestamp)
                                      = restore_version(Store, rel, Row(i).version_timestamp)
                        /\ ~exists(r.S.disk, cur)
                   ELSE r.S = Store

\* C14: on one connection the agent's output is the ready frame followed by
\* exactly one response frame per request line, in request order: every line
\* on standard output is a JSON object, and no request has zero or two
\* responses.
C14_OneJsonFramePerRequest ==
    agent_pc # "idle" =>
        /\ Len(stdout) = requests + 1
        /\ \A k \in 1..Len(stdout) : stdout[k].json /\ stdout[k].request = k - 1

\* The request line is one the agent must refuse: not JSON, an unknown
\* command, a save or a delete of an unsafe path, a save_delta without a
\* delta or for a path the catalog has no version of.
Refused(cmd) ==
    \/ ~cmd.json
    \/ cmd.cmd = "bogus"
    \/ cmd.cmd \in {"save_version", "delete_file"} /\ ~_validate_path(cmd.path).ok
    \/ cmd.cmd = "save_delta" /\ (~cmd.has_delta \/ LatestRows(Store, cmd.path) = {})

\* C15: an unknown command, a line that is not valid JSON, or a command that
\* fails with a domain error gets an error response for that request, as the
\* last line written, and leaves the agent ready to read the next request.
C15_ErrorsAnswered ==
    [][(requests' = requests + 1 /\ Refused(request'))
          => /\ stdout'[Len(stdout')] = [json |-> TRUE, request |-> requests', body |-> "error"]
             /\ \A k \in 1..Len(stdout) : stdout'[k] = stdout[k]
             /\ agent_pc' = "ready"]_vars

\* A refused request was answered with an error, and the request after it was
\* read and answered too.
C15_Witness ==
    /\ agent_pc = "ready"
    /\ \E j, k \in 1..Len(stdout) :
          /\ j < k
          /\ stdout[j] = [json |-> TRUE, request |-> requests - 1, body |-> "error"]
          /\ stdout[k].json /\ stdout[k].request = requests /\ stdout[k].body = "ok"

\* current/<rel> exists in S and holds the plaintext of the newest row of rel:
\* the row (each of them, when several share the timestamp) that ORDER BY
\* version_timestamp DESC puts first.
CurrentIsNewest(S, rel) ==
    /\ exists(S.disk, current_dir \o rel)
    /\ LatestRows(S, rel) # {}
    /\ \A i \in LatestRows(S, rel) :
          S.file_versions[i].file_hash = <<calculate_hash(read(S.disk, current_dir \o rel))>>

\* C16: after any sequence of save_version, save_delta and delete_file, a
\* successful save_version or save_delta for p leaves current/p existing and
\* byte-identical to the plaintext of p's newest row, and a successful
\* delete_file(p) leaves no current/p.
C16_CurrentMirrorsNewest ==
    \A p \in Paths, t \in Times :
        /\ \A c \in Contents :
              LET r == save_version(Store, Plain(c), p, t)
              IN  r.ok => CurrentIsNewest(r.S, strip(p))
        /\ \A d \in Deltas, i \in LatestRows(Store, p) :
              LET r == save_file_from_delta(Store, p, d, t, i)
              IN  r.ok => CurrentIsNewest(r.S, strip(p))
        /\ LET r == delete_file(Store, p, t)
           IN  r.ok => ~exists(r.S.disk, current_dir \o strip(p))

\* C17: with encryption enabled, every file that save_version, save_delta and
\* delete_file leave under versions/ or dedup_store/ holds ciphertext, and
\* every row of the catalog has is_encrypted set.
C17_StoredBlobsAreCiphertext ==
    enable_encryption =>
        /\ \A f \in disk :
              (IsPrefix(versions_dir, f.path) \/ IsPrefix(dedup_dir, f.path)) => f.data.enc
        /\ \A i \in RowIdx(Store) : Row(i).is_encrypted

\* The version restore_version(file_path, timestamp) reads: the first row of
\* that key.
Version(file_path, timestamp) == Row(FirstOf(Matching(Store, file_path, timestamp)))

\* C18: restore_version never returns success leaving a destination whose
\* SHA-256 differs from the hash recorded for the version: a mismatch is a
\* failure.
C18_RestoreVerifiesHash ==
    \A i \in RowIdx(Store) :
        LET r == restore_version(Store, Row(i).file_path, Row(i).version_timestamp)
        IN  r.ok => <<calculate_hash(r.out)>>
                      = Version(Row(i).file_path, Row(i).version_timestamp).file_hash

\* What happens to a restore of (file_path, timestamp) in the current state.
Cause(file_path, timestamp) ==
    IF Matching(Store, file_path, timestamp) = {} THEN "no record"
    ELSE LET v == Version(file_path, timestamp)
             r == restore_version(Store, file_path, timestamp)
         IN  IF ~exists(disk, BackupRoot \o v.version_path) THEN "no blob"
             ELSE IF ~r.ok THEN "decryption failure"
             ELSE IF <<calculate_hash(r.out)>> # v.file_hash THEN "hash mismatch"
             ELSE "success"

\* C19: a missing version record, a missing blob, a decryption failure, a hash
\* mismatch and success are outcomes the caller of restore_version can tell
\* apart: two restores that end differently return different values.
C19_RestoreOutcomesDiffer ==
    \A p1 \in Paths, p2 \in Paths, t1 \in 0..MaxTime, t2 \in 0..MaxTime :
        Cause(strip(p1), t1) # Cause(strip(p2), t2)
            => restore_version(Store, strip(p1), t1).ok # restore_version(Store, strip(p2), t2).ok

\* C20: the row a save_version appends has action "created" if and only if
\* the catalog held no row of that path when it was saved, and "modified"
\* otherwise, also when the path was saved and then deleted before.
C20_CreatedIffFirstVersion ==
    \A p \in Paths, c \in Contents, t \in Times :
        LET r == save_version(Store, Plain(c), p, t)
            n == Len(file_versions)
        IN  (r.ok /\ Len(r.S.file_versions) = n + 1) =>
              r.S.file_versions[n + 1].action =
                  (IF \E i \in RowIdx(Store) : Row(i).file_path = strip(p)
                     THEN "modified" ELSE "created")

\* C21: the prune command answers {status: ok, pruned: N}, N being the number
\* of rows it removed from the catalog.
C21_PruneAnswersCount ==
    pruned # None =>
        /\ pruned.ok
        /\ pruned.pruned = Len(pruned.before) - Len(file_versions)

\* A backup root as VersionManager(backup_root) creates it, with the defaults.
FreshStore ==
    [enable_compression |-> TRUE, enable_deduplication |-> TRUE, enable_encryption |-> TRUE,
     file_versions |-> <<>>, dedup_store |-> {}, disk |-> {}]

\* The store holding the baseline as the only version of "a", the outcome of
\* the save_delta of the client's delta, and the outcome of the same
\* save_delta sent again.
Baseline   == save_version(FreshStore, Plain(base_file), <<"a">>, 1).S
FirstSend  == save_file_from_delta(Baseline, <<"a">>, delta, 2,
                                   CHOOSE i \in LatestRows(Baseline, <<"a">>) : TRUE)
SecondSend == save_file_from_delta(FirstSend.S, <<"a">>, delta, 3,
                                   CHOOSE i \in LatestRows(FirstSend.S, <<"a">>) : TRUE)

\* C22: a save_delta that succeeded and is sent again (same path, same delta,
\* the latest version now being the delta's target) succeeds through the
\* no-change fast path and leaves the catalog as the first application left it.
C22_SaveDeltaIdempotent ==
    (delta # None /\ FirstSend.ok) =>
        /\ SecondSend.ok
        /\ SecondSend.S.file_versions = FirstSend.S.file_versions

Sent(cmd) == \E k \in 1..Len(wire) : wire[k] = cmd

\* C23: send_file sends a save_delta request only when the file is larger
\* than 4096 bytes and the delta's transfer size (8 per block reference plus
\* the literal bytes) is more than 10 % smaller than the file size; in every
\* other case it sends a full save_version upload.
C23_DeltaOnlyWhenWorthIt ==
    wire # <<>> =>
        LET worth == /\ local_file.local_size > 4096
                     /\ 10 * (8 * local_file.blocks + local_file.literal)
                            < 9 * local_file.local_size
        IN  /\ Sent("save_delta") => worth
            /\ ~worth => Sent("save_version")
            /\ ~Sent("save_delta") => Sent("save_version")

\* A file of two known blocks went as a delta of two references and was not
\* uploaded in full.
C23_Witness ==
    /\ local_file # None
    /\ local_file.local_size = 8192 /\ local_file.blocks = 2
    /\ Sent("save_delta") /\ ~Sent("save_version")

\* C24: while an agent runs against a backup root, a second agent started
\* against the same root is refused (it never enters its command loop) and
\* writes nothing to the catalog or the blob store of that root.
C24_SecondAgentRefused ==
    /\ second_agent.pc \in {"idle", "refused"}
    /\ ~second_agent.wrote

\* C25: after a first save of a fresh path and one save of different content
\* to the same path, get_statistics reports total_versions = 1.
C25_StatisticsCountOneVersion ==
    (/\ Len(file_versions) = 2
     /\ Row(1).file_path = Row(2).file_path
     /\ Row(1).action = "created" /\ Row(2).action = "modified"
     /\ Row(1).file_hash # Row(2).file_hash)
        => /\ get_statistics(Store).ok
           /\ get_statistics(Store).total_versions = 1

\* C26: with encryption on and deduplication off, after V1 and then a
\* different V2 were saved to a fresh path, restoring the first timestamp of
\* the path's version listing (newest first) yields the bytes of V1.
C26_FirstListedRestoresV1 ==
    (/\ ~enable_deduplication /\ enable_encryption
     /\ Len(file_versions) = 2
     /\ Row(1).file_path = Row(2).file_path
     /\ Row(1).action = "created" /\ Row(2).action = "modified"
     /\ Row(1).version_timestamp < Row(2).version_timestamp
     /\ Row(1).file_hash # Row(2).file_hash)
        => LET versions == list_versions_for_file(Store, Row(1).file_path)
               r == restore_version(Store, Row(1).file_path, versions[1])
           IN  r.ok /\ <<calculate_hash(r.out)>> = Row(1).file_hash

\* The rows of the catalog that reference the dedup object d: save_version
\* records the path get_or_create_dedup_file returned as dedup_ref.
Referencing(S, d) ==
    {i \in RowIdx(S) : /\ S.file_versions[i].is_deduplicated
                       /\ S.file_versions[i].dedup_ref \in {d.dedup_path, d.file_hash}}

\* C27: gc deletes neither the blob nor the dedup record of an object that a
\* file-version record still references, whatever its ref_count: a record
\* with ref_count <= 0 referenced by k > 0 rows gets ref_count k, and record
\* and blob stay.
C27_GcKeepsReferencedObjects ==
    \A d \in dedup_store :
        LET k  == Cardinality(Referencing(Store, d))
            S2 == cleanup_dedup(Store)
        IN  k > 0 =>
              /\ \E e \in S2.dedup_store :
                    /\ e.file_hash = d.file_hash
                    /\ e.ref_count = (IF d.ref_count <= 0 THEN k ELSE d.ref_count)
              /\ exists(disk, BackupRoot \o d.dedup_path)
                    => exists(S2.disk, BackupRoot \o d.dedup_path)

\* C28: when gc runs concurrently with a save_version on the same backup
\* root, whatever the interleaving of their steps, once both are through no
\* file-version record references a dedup record or a blob that gc deleted.
C28_GcAndSaveInterleave ==
    (gc_run = None /\ saver = None) =>
        \A i \in RowIdx(Store) :
            Row(i).is_deduplicated =>
                /\ \E d \in dedup_store : d.dedup_path = Row(i).dedup_ref
                /\ exists(disk, BackupRoot \o Row(i).dedup_ref)

\* C29: the dedup step, the version record and the refresh of current/ are
\* atomic for the catalog: a save_version stopped after
\* get_or_create_dedup_file and before record_version leaves dedup_store as
\* it was, and the same save tried again counts its reference once.
C29_DedupStepRolledBack ==
    [][\A p \in Paths, c \in Contents, now \in Times :
          LET v == _validate_path(p)
              g == get_or_create_dedup_file(Store, Plain(c), calculate_hash(Plain(c))).S
          IN  (/\ enable_deduplication /\ v.ok /\ ~unchanged(Store, Plain(c), v.clean_rel)
               /\ file_versions' = g.file_versions
               /\ dedup_store' = g.dedup_store
               /\ disk' = g.disk)
                => /\ dedup_store' = dedup_store
                   /\ save_version(Store', Plain(c), p, now).S.dedup_store
                        = save_version(Store, Plain(c), p, now).S.dedup_store]_vars

\* The dedup object d is gone after a gc run on the store S: no record of its
\* hash, no blob at its path.
Collected(S, d) ==
    /\ ~\E e \in cleanup_dedup(S).dedup_store : e.file_hash = d.file_hash
    /\ ~exists(cleanup_dedup(S).disk, BackupRoot \o d.dedup_path)

\* C30: once retention (delete_specific_version, of a version that is the
\* only one of its path and timestamp) has removed the last file-version
\* record that referenced a dedup object, the next gc run that completes
\* deletes the object's blob and its dedup record.
C30_GcCollectsUnreferenced ==
    [][\A i \in RowIdx(Store) :
          LET r == delete_specific_version(Store, Row(i).file_path, Row(i).version_timestamp).S
          IN  (/\ Cardinality(Matching(Store, Row(i).file_path, Row(i).version_timestamp)) = 1
               /\ file_versions' = r.file_versions
               /\ dedup_store' = r.dedup_store
               /\ disk' = r.disk)
                => \A d \in dedup_store :
                      (Referencing(Store, d) # {} /\ Referencing(Store', d) = {})
                          => Collected(Store', d)]_vars

\* C31: gc is idempotent and resumable: a gc run right after a completed one
\* changes neither the catalog nor the blob store, and a gc run stopped
\* anywhere in its loop, followed by a complete run, ends in the store one
\* uninterrupted run ends in.
C31_GcIdempotentResumable ==
    /\ cleanup_dedup(cleanup_dedup(Store)) = cleanup_dedup(Store)
    /\ \A S \in cleanup_dedup_interrupted(Store) : cleanup_dedup(S) = cleanup_dedup(Store)

\* gc has a candidate to sweep whose blob is on disk, and can be stopped
\* after the unlink
C31_Witness ==
    /\ cleanup_dedup_interrupted(Store) # {}
    /\ \E S \in cleanup_dedup_interrupted(Store) : S # Store
    /\ cleanup_dedup(Store) # Store

\* The store when the save_delta arrives: the baseline the signature was
\* computed from is the latest version of "a", or `latest` was saved since.
Arrival(latest) ==
    IF latest = base_file THEN Baseline
    ELSE save_version(Baseline, Plain(latest), <<"a">>, 2).S

\* C32: save_delta records no version whose plaintext differs from the
\* target the client computed the delta for, also when the latest version of
\* the path is no longer the baseline of the signature.
C32_SaveDeltaRecordsTarget ==
    delta # None =>
        \A latest \in Files :
            LET S0 == Arrival(latest)
                r  == save_file_from_delta(S0, <<"a">>, delta, 3,
                                           CHOOSE i \in LatestRows(S0, <<"a">>) : TRUE)
            IN  \A k \in RowIdx(r.S) \ RowIdx(S0) :
                    r.S.file_versions[k].file_hash = <<calculate_hash(Plain(target_file))>>

\* backup_root / path, resolved, is not below the backup root
Outside(path) == ~IsPrefix(BackupRoot, resolve(BackupRoot \o strip(path)))

\* C33: a save_version or delete_file request whose path resolves outside the
\* backup root is answered with an error, and catalog, dedup table and every
\* file of the backup root are as before the request.
C33_UnsafePathRejectedBeforeIO ==
    [][(/\ requests' = requests + 1
        /\ request'.json
        /\ request'.cmd \in {"save_version", "delete_file"}
        /\ Outside(request'.path))
          => /\ stdout'[Len(stdout')] = [json |-> TRUE, request |-> requests', body |-> "error"]
             /\ file_versions' = file_versions
             /\ dedup_store' = dedup_store
             /\ disk' = disk]_vars

\* An unsafe save or delete was answered with an error on a store that holds
\* versions.
C33_Witness ==
    /\ request # None
    /\ request.json
    /\ request.cmd \in {"save_version", "delete_file"}
    /\ Outside(request.path)
    /\ stdout[Len(stdout)].body = "error"
    /\ file_versions # <<>>
    /\ disk # {}

\* C34: once SIGTERM or SIGINT has been received in the loop, the agent reads
\* and handles no further command: no request is read, nothing is answered,
\* and the store is left as it is, even when a line arrives after the signal.
C34_ClosingIsTerminal ==
    [][(agent_pc = "ready" /\ ~running) =>
          /\ requests' = requests
          /\ stdout' = stdout
          /\ file_versions' = file_versions /\ dedup_store' = dedup_store /\ disk' = disk]_vars

\* C35: after the end of input, a broken pipe on output or a signal, the loop
\* of run is eventually left, whatever the client does or does not send.
C35_LoopEventuallyLeft ==
    (agent_pc = "ready" /\ (transport = "eof" \/ ~running)) ~> (agent_pc = "closed")

\* the files under dedup_store/
DedupFiles(S) == {f \in S.disk : IsPrefix(dedup_dir, f.path)}

\* the rows delete_specific_version(file_path, timestamp) fetches a
\* deduplicated version from
Prunable(S) ==
    {i \in RowIdx(S) :
        /\ i = FirstOf(Matching(S, S.file_versions[i].file_path, S.file_versions[i].version_timestamp))
        /\ S.file_versions[i].is_deduplicated
        /\ S.file_versions[i].dedup_ref # NULL}

Archived(S) == {i \in RowIdx(S) : S.file_versions[i].action \in {"created", "modified"}}

\* C37: for every version record whose blob is on disk, is_compressed and
\* is_encrypted, the flags restore works with, say how the blob was written:
\* gzipped or not, encrypted or not; also after a compression that fell back
\* to a copy, and after a deduplication hit on a blob written under other
\* settings.
C37_FlagsDescribeBlob ==
    \A i \in Archived(Store) :
        exists(disk, BackupRoot \o Row(i).version_path) =>
            LET blob == read(disk, BackupRoot \o Row(i).version_path)
            IN  /\ blob.gz = Row(i).is_compressed
                /\ blob.enc = Row(i).is_encrypted

\* the catalog of S, row for row and field for field, is the head of the catalog of T
KeepsRecords(S, T) == IsPrefix(S.file_versions, T.file_versions)

\* C38: save_version, save_delta, delete_file and gc leave every existing
\* file-version record in place with all its fields: they only append.
C38_RecordsOnlyAppended ==
    /\ \A p \in Paths, c \in Contents, now \in Times :
          KeepsRecords(Store, save_version(Store, Plain(c), p, now).S)
    /\ \A p \in Paths, now \in Times :
          KeepsRecords(Store, delete_file(Store, p, now).S)
    /\ \A p \in Paths, d \in Deltas, now \in Times :
          \A i \in LatestRows(Store, p) :
              KeepsRecords(Store, save_file_from_delta(Store, p, d, now, i).S)
    /\ cleanup_dedup(Store).file_versions = file_versions

C38_Witness ==
    /\ file_versions # <<>>
    /\ cleanup_dedup(Store) # Store
    /\ \E p \in Paths, c \in Contents :
          Len(save_version(Store, Plain(c), p, Row(1).version_timestamp).S.file_versions) > Len(file_versions)
    /\ \E p \in Paths, now \in Times :
          Len(delete_file(Store, p, now).S.file_versions) > Len(file_versions)
    /\ \E p \in Paths, d \in Deltas, now \in Times :
          \E i \in LatestRows(Store, p) :
              Len(save_file_from_delta(Store, p, d, now, i).S.file_versions) > Len(file_versions)

\* C39: change_password(old, new) with an old password other than the one the
\* key file was last saved under fails and leaves the key file as it is,
\* whether the file is wrapped or raw.
C39_WrongOldPasswordRefused ==
    \A old \in Passwords \ {password}, new \in Passwords, salt \in Salts, nonce \in Nonces :
        LET r == change_password(manager, key_file, old, new, salt, nonce)
        IN  ~r.ok /\ r.key_file = key_file

====
